---------------------------- MODULE Spec2Model ----------------------------
(***************************************************************************)
(* Reconciliation engine of google-calendar-linear-sync: the projector     *)
(* (src/src/dry-run.ts), the diff engine (src/unnamed/part_002, second     *)
(* version), the actuator (src/src/actuator.ts), the scheduler             *)
(* (src/unnamed/part_006) and the worker pass (src/src/worker.ts).         *)
(*                                                                         *)
(* Conventions of the model                                                *)
(*  - a string of the program is a sequence of Unicode code points;        *)
(*  - a time stamp is a record [kind, t]: kind "dateTime" (an ISO          *)
(*    date-time), "date" (a 10-character ISO date) or "none" (undefined),  *)
(*    t the minutes since midnight of day 0, a Sunday; one time zone;      *)
(*  - a free-text notes field is a sequence of lines, each a record;       *)
(*    the empty sequence stands for "" and for undefined alike;            *)
(*  - an identifier is a positive number, and 0 stands for undefined;      *)
(*  - a uid is a record [src, n]: "gen" for a uuid the projector minted,   *)
(*    "ext" for one found in the calendar, "none" for undefined.           *)
(***************************************************************************)
EXTENDS Integers, Sequences, FiniteSets, TLC

VARIABLES
    now,            \* wall clock of the run (minutes)
    linearIssues,   \* the issue tracker's issues, in creation order
    gcalEvents,     \* the calendar's events, in creation order
    nextLinearId,   \* next id the issue tracker hands out
    nextGCalId,     \* next id the calendar hands out
    uidCounter,     \* number of uuids minted so far
    pc,             \* "idle" | "executing": position of SyncWorker.sync
    items,          \* projection.items of the current pass
    operations,     \* operations of the current pass
    results,        \* ExecutionResult[] of the current pass
    passes,         \* number of passes completed
    failures,       \* number of client calls that have thrown
    hist            \* observations of earlier passes (for the properties)

vars == <<now, linearIssues, gcalEvents, nextLinearId, nextGCalId, uidCounter,
          pc, items, operations, results, passes, failures, hist>>

-----------------------------------------------------------------------------
(* Generic helpers *)

Range(s) == {s[i] : i \in 1..Len(s)}

Max(a, b) == IF a >= b THEN a ELSE b

Min(a, b) == IF a <= b THEN a ELSE b

\* integer division truncating toward zero (dayjs diff without the float flag)
TruncDiv(a, b) == IF a >= 0 THEN a \div b ELSE -((-a) \div b)

\* the element of a singleton; The({e(x) : x \in {v}}) is e with x bound to the
\* value of v, computed once
The(S) == CHOOSE x \in S : TRUE

-----------------------------------------------------------------------------
(* types.ts: title prefixes *)

NNBSP == 8239

TRIAGE_G == 128229

SCHEDULED_G == 128197

DONE_G == 9989

CANCELED_G == 128683

FAILED_G == 10060

WORKED_G == 9203

PREFIX_TRIAGE == <<TRIAGE_G, NNBSP>>

PREFIX_SCHEDULED == <<SCHEDULED_G, NNBSP>>

PREFIX_DONE == <<DONE_G, NNBSP>>

PREFIX_CANCELED == <<CANCELED_G, NNBSP>>

PREFIX_FAILED == <<FAILED_G, NNBSP>>

PREFIX_WORKED == <<WORKED_G, NNBSP>>

\* the character class of stripPrefix's regular expression
InEmojiClass(c) ==
    \/ c \in 127744..129535
    \/ c \in 9728..9983
    \/ c \in 9984..10175

\* String.prototype.trim strips white space, U+202F (category Zs) included
IsWhiteSpace(c) == c \in {32, NNBSP, 9, 10, 13, 160}

RECURSIVE TrimLeft(_)
TrimLeft(s) ==
    IF s # <<>> /\ IsWhiteSpace(Head(s)) THEN TrimLeft(Tail(s)) ELSE s

RECURSIVE TrimRight(_)
TrimRight(s) ==
    IF s # <<>> /\ IsWhiteSpace(s[Len(s)])
    THEN TrimRight(SubSeq(s, 1, Len(s) - 1))
    ELSE s

Trim(s) == TrimRight(TrimLeft(s))

stripPrefix(title) ==
    IF Len(title) >= 2 /\ InEmojiClass(title[1]) /\ title[2] = NNBSP
    THEN Trim(SubSeq(title, 3, Len(title)))
    ELSE Trim(title)

addPrefix(title, prefix) == prefix \o stripPrefix(title)

-----------------------------------------------------------------------------
(* types.ts: estimates *)

Estimates == {"XS", "S", "M", "L", "XL"}

ESTIMATE_DURATIONS(e) ==
    CASE e = "XS" -> 15
      [] e = "S" -> 30
      [] e = "M" -> 60
      [] e = "L" -> 120
      [] e = "XL" -> 240

\* POINTS_TO_ESTIMATE[points]; "none" when the table has no such key
POINTS_TO_ESTIMATE(points) ==
    CASE points = 1 -> "XS"
      [] points = 2 -> "S"
      [] points = 3 -> "M"
      [] points = 5 -> "L"
      [] points = 8 -> "XL"
      [] OTHER -> "none"

ESTIMATE_TO_POINTS(e) ==
    CASE e = "XS" -> 1
      [] e = "S" -> 2
      [] e = "M" -> 3
      [] e = "L" -> 5
      [] e = "XL" -> 8

\* durationToEstimate with the bucket limits exclusive
durationToEstimateExclusive(durationMin) ==
    IF durationMin < 22 THEN "XS"
    ELSE IF durationMin < 45 THEN "S"
    ELSE IF durationMin < 90 THEN "M"
    ELSE IF durationMin < 180 THEN "L"
    ELSE "XL"

durationToEstimate(durationMin) ==
    IF durationMin <= 22 THEN "XS"
    ELSE IF durationMin <= 45 THEN "S"
    ELSE IF durationMin <= 90 THEN "M"
    ELSE IF durationMin <= 180 THEN "L"
    ELSE "XL"

estimateToDuration(e) == ESTIMATE_DURATIONS(e)

pointsToEstimate(points) ==
    IF POINTS_TO_ESTIMATE(points) # "none" THEN POINTS_TO_ESTIMATE(points) ELSE "S"

estimateToPoints(e) == ESTIMATE_TO_POINTS(e)

-----------------------------------------------------------------------------
(* Time stamps *)

NoTime == [kind |-> "none", t |-> 0]

DateTime(t) == [kind |-> "dateTime", t |-> t]

DateOnly(t) == [kind |-> "date", t |-> t]

HasTime(ts) == ts.kind # "none"

Hours(h) == h * 60

Days(d) == d * 24 * 60

StartOfDay(t) == t - (t % Days(1))

EndOfDay(t) == StartOfDay(t) + Days(1) - 1

DayOfWeek(t) == (t \div Days(1)) % 7

\* a || b on optional time strings
\* a || b with the second operand taking precedence
OrTimeSecondFirst(a, b) == IF HasTime(b) THEN b ELSE a

OrTime(a, b) == IF HasTime(a) THEN a ELSE b

-----------------------------------------------------------------------------
(* Free-text notes: lines, and metadata-parser.ts *)

\* "<!-- calendar-sync --> GoogleCalEventId:<id> | Start:<start> | DurMin:<dur>"
MetaLine(gcalId, start, dur) ==
    [k |-> "meta", id |-> gcalId, start |-> start, dur |-> dur]

\* "Linear issue: [<id>](https://linear.app/liamhorne/issue/<id>)"
LinkLine(linearId) == [k |-> "link", id |-> linearId, start |-> NoTime, dur |-> 0]

\* "Linear issue: https://linear.app/<team>/issue/ABC-<n>", typed by a user
UrlLine(n) == [k |-> "url", id |-> n, start |-> NoTime, dur |-> 0]

\* a line holding "https://calendar.google.com/calendar/event?eid=..."
GCalLinkLine == [k |-> "gcal", id |-> 0, start |-> NoTime, dur |-> 0]

TextLine(n) == [k |-> "text", id |-> n, start |-> NoTime, dur |-> 0]

BlankLine == [k |-> "blank", id |-> 0, start |-> NoTime, dur |-> 0]

\* `${line}\n\n${description}` when description is non-empty, else line
PrependLine(line, description) ==
    IF description # <<>> THEN <<line, BlankLine>> \o description ELSE <<line>>

RECURSIVE TrimLinesLeft(_)
TrimLinesLeft(d) ==
    IF d # <<>> /\ Head(d).k = "blank" THEN TrimLinesLeft(Tail(d)) ELSE d

RECURSIVE TrimLinesRight(_)
TrimLinesRight(d) ==
    IF d # <<>> /\ d[Len(d)].k = "blank"
    THEN TrimLinesRight(SubSeq(d, 1, Len(d) - 1))
    ELSE d

\* the regular expression needs DurMin:(\d+), so a negative duration is no match
IsParsableMeta(line) == line.k = "meta" /\ line.dur >= 0

parseAllCalendarMetadataFromDescription(description) ==
    LET IsMeta(line) == IsParsableMeta(line)
        metas == SelectSeq(description, IsMeta)
    IN [i \in 1..Len(metas) |->
          [gcalId |-> metas[i].id, startTime |-> metas[i].start,
           durationMin |-> metas[i].dur]]

\* first match only; only the bare-URL form matches, the Actuator's
\* "[id](url)" form does not; 0 when there is no match
parseLinearLinkFromDescription(description) ==
    LET IsUrl(line) == line.k = "url"
        urls == SelectSeq(description, IsUrl)
    IN IF urls = <<>> THEN 0 ELSE urls[1].id

-----------------------------------------------------------------------------
(* Uids *)

NoUid == [src |-> "none", n |-> 0]

GenUid(n) == [src |-> "gen", n |-> n]

ExtUid(n) == [src |-> "ext", n |-> n]

\* uuidv4(): the n-th uuid minted differs from every uuid seen before
generateUid(counter) == GenUid(counter + 1)

-----------------------------------------------------------------------------
(* Entities (types.ts) *)

LinearIssue(id, title, description, state, targetDate, estimate) ==
    [id |-> id, title |-> title, description |-> description, state |-> state,
     targetDate |-> targetDate, estimate |-> estimate]

\* extendedProperties.private is {uid, linearIssueId}
GCalEvent(id, summary, description, start, end, uid, linearIssueId) ==
    [id |-> id, summary |-> summary, description |-> description,
     start |-> start, end |-> end, uid |-> uid, linearIssueId |-> linearIssueId]

NoIssue == LinearIssue(0, <<>>, <<>>, "none", NoTime, 0)

NoEvent == GCalEvent(0, <<>>, <<>>, NoTime, NoTime, NoUid, 0)

LinearStates == {"Triage", "Scheduled", "Done", "Canceled", "Failed"}

Phases == {"eventOnly", "linearOnly", "active", "completed", "overdue"}

-----------------------------------------------------------------------------
(* projector.ts (src/src/dry-run.ts:792-1121) *)

\* a faulty variant without the branch for an issue that has no event
classifyPhaseWithoutLinearOnly(linearIssue, gcalEvent, endTime, t) ==
    IF gcalEvent # NoEvent /\ linearIssue = NoIssue THEN "eventOnly"
    ELSE IF linearIssue # NoIssue /\ gcalEvent # NoEvent THEN
        IF linearIssue.state \in {"Done", "Canceled", "Failed"} THEN "completed"
        ELSE IF /\ HasTime(endTime)
                /\ TruncDiv(t - endTime.t, Hours(1)) > 24
                /\ linearIssue.state # "Done"
             THEN "overdue"
        ELSE "active"
    ELSE "active"

classifyPhase(linearIssue, gcalEvent, endTime, t) ==
    IF gcalEvent # NoEvent /\ linearIssue = NoIssue THEN "eventOnly"
    ELSE IF linearIssue # NoIssue /\ gcalEvent = NoEvent THEN "linearOnly"
    ELSE IF linearIssue # NoIssue /\ gcalEvent # NoEvent THEN
        IF linearIssue.state \in {"Done", "Canceled", "Failed"} THEN "completed"
        ELSE IF /\ HasTime(endTime)
                /\ TruncDiv(t - endTime.t, Hours(1)) > 24
                /\ linearIssue.state # "Done"
             THEN "overdue"
        ELSE "active"
    ELSE "active"

createCanonicalItem(uid, linearIssue, gcalEvent, t) ==
    LET title == IF linearIssue # NoIssue THEN stripPrefix(linearIssue.title)
                 ELSE IF gcalEvent # NoEvent THEN stripPrefix(gcalEvent.summary)
                 ELSE <<85>>
        description == IF linearIssue.description # <<>>
                       THEN linearIssue.description
                       ELSE gcalEvent.description
        startTime == OrTime(gcalEvent.start, linearIssue.targetDate)
        endTime == gcalEvent.end
        fromEvent == gcalEvent # NoEvent /\ HasTime(startTime) /\ HasTime(endTime)
        dur1 == IF fromEvent THEN endTime.t - startTime.t ELSE 0
        est1 == IF fromEvent THEN durationToEstimate(dur1) ELSE "none"
        fromIssue == linearIssue.estimate # 0
        est2 == IF fromIssue THEN pointsToEstimate(linearIssue.estimate) ELSE est1
        dur2 == IF fromIssue /\ dur1 = 0 THEN ESTIMATE_DURATIONS(est2) ELSE dur1
        estimate == IF est2 = "none" THEN "S" ELSE est2
        durationMin == IF est2 = "none" /\ dur2 = 0 THEN 30 ELSE dur2
    IN [uid |-> uid,
        title |-> title,
        description |-> description,
        startTime |-> startTime,
        endTime |-> endTime,
        durationMin |-> durationMin,
        estimate |-> estimate,
        linearId |-> linearIssue.id,
        gcalId |-> gcalEvent.id,
        linearState |-> linearIssue.state,
        phase |-> classifyPhase(linearIssue, gcalEvent, endTime, t),
        lastModified |-> t,
        currentGCalTitle |-> gcalEvent.summary,
        currentLinearTitle |-> linearIssue.title]

\* Map.prototype.set on an insertion-ordered map kept as a sequence of entries
MapSet(m, key, val) ==
    IF \E i \in 1..Len(m) : m[i].key = key
    THEN [i \in 1..Len(m) |-> IF m[i].key = key THEN [key |-> key, val |-> val] ELSE m[i]]
    ELSE Append(m, [key |-> key, val |-> val])

\* Array.prototype.find by id; the absent entity when nothing matches
FindById(list, id, absent) ==
    IF \E i \in 1..Len(list) : list[i].id = id
    THEN list[CHOOSE i \in 1..Len(list) :
                /\ list[i].id = id
                /\ \A j \in 1..(i - 1) : list[j].id # id]
    ELSE absent

RECURSIVE IndexMetas(_, _, _, _)
IndexMetas(m, metas, i, issue) ==
    IF i > Len(metas) THEN m
    ELSE The({IndexMetas(m1, metas, i + 1, issue) :
                m1 \in {MapSet(m, metas[i].gcalId, issue)}})

\* linearByGCalId (lines 835-859)
RECURSIVE BuildLinearByGCalId(_, _, _)
BuildLinearByGCalId(m, issues, i) ==
    IF i > Len(issues) THEN m
    ELSE The({BuildLinearByGCalId(IndexMetas(m, metas, 1, issues[i]), issues, i + 1) :
                metas \in {parseAllCalendarMetadataFromDescription(
                              issues[i].description)}})

\* gcalByLinearId (lines 861-877)
RECURSIVE BuildGCalByLinearId(_, _, _)
BuildGCalByLinearId(m, events, i) ==
    IF i > Len(events) THEN m
    ELSE LET event == events[i]
             m1 == IF event.linearIssueId # 0
                   THEN MapSet(m, event.linearIssueId, event)
                   ELSE m
             link == parseLinearLinkFromDescription(event.description)
         IN The({BuildGCalByLinearId(m2, events, i + 1) :
                   m2 \in {IF link # 0 THEN MapSet(m1, link, event) ELSE m1}})

\* the uid of an event's private bag, or a fresh one
UidOrFresh(event, acc) ==
    IF event.uid # NoUid THEN event.uid ELSE generateUid(acc.ctr)

CtrAfter(event, acc) == IF event.uid # NoUid THEN acc.ctr ELSE acc.ctr + 1

\* lines 879-901: pairs named by the calendar side
RECURSIVE PairByCalendar(_, _, _, _, _)
PairByCalendar(acc, entries, i, issues, t) ==
    IF i > Len(entries) THEN acc
    ELSE LET gcalEvent == entries[i].val
             linked == FindById(issues, entries[i].key, NoIssue)
             acc1 ==
                IF /\ linked # NoIssue
                   /\ linked.id \notin acc.processedLinearIds
                   /\ gcalEvent.id \notin acc.processedGCalIds
                THEN [items |-> Append(acc.items,
                                  createCanonicalItem(UidOrFresh(gcalEvent, acc),
                                                      linked, gcalEvent, t)),
                      processedLinearIds |-> acc.processedLinearIds \cup {linked.id},
                      processedGCalIds |-> acc.processedGCalIds \cup {gcalEvent.id},
                      ctr |-> CtrAfter(gcalEvent, acc)]
                ELSE acc
         IN The({PairByCalendar(acc2, entries, i + 1, issues, t) : acc2 \in {acc1}})

\* a faulty variant of PairByIssue that pairs an issue with the event its
\* metadata names without asking whether the event is paired already
RECURSIVE PairByIssueUnguarded(_, _, _, _, _)
PairByIssueUnguarded(acc, entries, i, events, t) ==
    IF i > Len(entries) THEN acc
    ELSE LET linearIssue == entries[i].val
             linked == FindById(events, entries[i].key, NoEvent)
             acc1 ==
                IF linearIssue.id \in acc.processedLinearIds THEN acc
                ELSE [items |-> Append(acc.items,
                                  createCanonicalItem(
                                      IF linked # NoEvent THEN UidOrFresh(linked, acc)
                                      ELSE generateUid(acc.ctr),
                                      linearIssue, linked, t)),
                      processedLinearIds |-> acc.processedLinearIds \cup {linearIssue.id},
                      processedGCalIds |-> acc.processedGCalIds \cup
                                             (IF linked # NoEvent THEN {linked.id} ELSE {}),
                      ctr |-> acc.ctr + 1]
         IN The({PairByIssueUnguarded(acc2, entries, i + 1, events, t) : acc2 \in {acc1}})

\* a faulty variant of PairByIssue whose stale branch does not mark the issue
\* as consumed
RECURSIVE PairByIssueStaleUnmarked(_, _, _, _, _)
PairByIssueStaleUnmarked(acc, entries, i, events, t) ==
    IF i > Len(entries) THEN acc
    ELSE LET linearIssue == entries[i].val
             linked == FindById(events, entries[i].key, NoEvent)
             acc1 ==
                IF /\ linked # NoEvent
                   /\ linearIssue.id \notin acc.processedLinearIds
                   /\ linked.id \notin acc.processedGCalIds
                THEN [items |-> Append(acc.items,
                                  createCanonicalItem(UidOrFresh(linked, acc),
                                                      linearIssue, linked, t)),
                      processedLinearIds |-> acc.processedLinearIds \cup {linearIssue.id},
                      processedGCalIds |-> acc.processedGCalIds \cup {linked.id},
                      ctr |-> CtrAfter(linked, acc)]
                ELSE IF linked = NoEvent /\ linearIssue.id \notin acc.processedLinearIds
                THEN [items |-> Append(acc.items,
                                  createCanonicalItem(generateUid(acc.ctr),
                                                      linearIssue, NoEvent, t)),
                      processedLinearIds |-> acc.processedLinearIds,
                      processedGCalIds |-> acc.processedGCalIds,
                      ctr |-> acc.ctr + 1]
                ELSE acc
         IN The({PairByIssueStaleUnmarked(acc2, entries, i + 1, events, t) : acc2 \in {acc1}})

\* lines 903-941: pairs named by the issue side, stale metadata
RECURSIVE PairByIssue(_, _, _, _, _)
PairByIssue(acc, entries, i, events, t) ==
    IF i > Len(entries) THEN acc
    ELSE LET linearIssue == entries[i].val
             linked == FindById(events, entries[i].key, NoEvent)
             acc1 ==
                IF /\ linked # NoEvent
                   /\ linearIssue.id \notin acc.processedLinearIds
                   /\ linked.id \notin acc.processedGCalIds
                THEN [items |-> Append(acc.items,
                                  createCanonicalItem(UidOrFresh(linked, acc),
                                                      linearIssue, linked, t)),
                      processedLinearIds |-> acc.processedLinearIds \cup {linearIssue.id},
                      processedGCalIds |-> acc.processedGCalIds \cup {linked.id},
                      ctr |-> CtrAfter(linked, acc)]
                ELSE IF linked = NoEvent /\ linearIssue.id \notin acc.processedLinearIds
                THEN [items |-> Append(acc.items,
                                  createCanonicalItem(generateUid(acc.ctr),
                                                      linearIssue, NoEvent, t)),
                      processedLinearIds |-> acc.processedLinearIds \cup {linearIssue.id},
                      processedGCalIds |-> acc.processedGCalIds,
                      ctr |-> acc.ctr + 1]
                ELSE acc
         IN The({PairByIssue(acc2, entries, i + 1, events, t) : acc2 \in {acc1}})

\* lines 943-958
RECURSIVE UnpairedIssues(_, _, _, _)
UnpairedIssues(acc, issues, i, t) ==
    IF i > Len(issues) THEN acc
    ELSE LET issue == issues[i]
             acc1 ==
                IF issue.id \notin acc.processedLinearIds
                THEN [items |-> Append(acc.items,
                                  createCanonicalItem(generateUid(acc.ctr),
                                                      issue, NoEvent, t)),
                      processedLinearIds |-> acc.processedLinearIds \cup {issue.id},
                      processedGCalIds |-> acc.processedGCalIds,
                      ctr |-> acc.ctr + 1]
                ELSE acc
         IN The({UnpairedIssues(acc2, issues, i + 1, t) : acc2 \in {acc1}})

\* a faulty variant of UnpairedEvents that leaves the unpaired events alone
UnpairedEventsSkipped(acc, events, i, t) == acc

\* lines 960-975
RECURSIVE UnpairedEvents(_, _, _, _)
UnpairedEvents(acc, events, i, t) ==
    IF i > Len(events) THEN acc
    ELSE LET event == events[i]
             acc1 ==
                IF event.id \notin acc.processedGCalIds
                THEN [items |-> Append(acc.items,
                                  createCanonicalItem(UidOrFresh(event, acc),
                                                      NoIssue, event, t)),
                      processedLinearIds |-> acc.processedLinearIds,
                      processedGCalIds |-> acc.processedGCalIds \cup {event.id},
                      ctr |-> CtrAfter(event, acc)]
                ELSE acc
         IN The({UnpairedEvents(acc2, events, i + 1, t) : acc2 \in {acc1}})

\* project with the issue-side pairs walked before the calendar-side pairs
projectIssueSideFirst(issues, events, t, ctr) ==
    LET acc0 == [items |-> <<>>, processedLinearIds |-> {},
                 processedGCalIds |-> {}, ctr |-> ctr]
    IN The({The({The({The({The({
         LET IsOrphanIssue(i) == i.id \notin acc4.processedLinearIds
             IsOrphanEvent(e) == e.id \notin acc4.processedGCalIds
         IN [items |-> acc4.items,
             orphanedLinearIssues |-> SelectSeq(issues, IsOrphanIssue),
             orphanedGCalEvents |-> SelectSeq(events, IsOrphanEvent),
             ctr |-> acc4.ctr] :
           acc4 \in {UnpairedEvents(acc3, events, 1, t)}}) :
           acc3 \in {UnpairedIssues(acc2, issues, 1, t)}}) :
           acc2 \in {PairByCalendar(acc1, gcalByLinearId, 1, issues, t)}}) :
           acc1 \in {PairByIssue(acc0, linearByGCalId, 1, events, t)}}) :
           linearByGCalId \in {BuildLinearByGCalId(<<>>, issues, 1)},
           gcalByLinearId \in {BuildGCalByLinearId(<<>>, events, 1)}})

\* project({linearIssues, gcalEvents, now}); ctr is the number of uuids minted
\* before the call, and the result carries the number minted after it
project(issues, events, t, ctr) ==
    LET acc0 == [items |-> <<>>, processedLinearIds |-> {},
                 processedGCalIds |-> {}, ctr |-> ctr]
    IN The({The({The({The({The({
         LET IsOrphanIssue(i) == i.id \notin acc4.processedLinearIds
             IsOrphanEvent(e) == e.id \notin acc4.processedGCalIds
         IN [items |-> acc4.items,
             orphanedLinearIssues |-> SelectSeq(issues, IsOrphanIssue),
             orphanedGCalEvents |-> SelectSeq(events, IsOrphanEvent),
             ctr |-> acc4.ctr] :
           acc4 \in {UnpairedEvents(acc3, events, 1, t)}}) :
           acc3 \in {UnpairedIssues(acc2, issues, 1, t)}}) :
           acc2 \in {PairByIssue(acc1, linearByGCalId, 1, events, t)}}) :
           acc1 \in {PairByCalendar(acc0, gcalByLinearId, 1, issues, t)}}) :
           linearByGCalId \in {BuildLinearByGCalId(<<>>, issues, 1)},
           gcalByLinearId \in {BuildGCalByLinearId(<<>>, events, 1)}})

-----------------------------------------------------------------------------
(* diff.ts (src/unnamed/part_002:208-396) *)

Operation(type, item, reason) == [type |-> type, item |-> item, reason |-> reason]

getCompletionPrefix(state) ==
    CASE state = "Done" -> PREFIX_DONE
      [] state = "Canceled" -> PREFIX_CANCELED
      [] state = "Failed" -> PREFIX_FAILED
      [] OTHER -> PREFIX_DONE

\* `Linear issue marked as ${item.linearState}`
CompletionReason(state) ==
    CASE state = "Done" -> "Linear issue marked as Done"
      [] state = "Canceled" -> "Linear issue marked as Canceled"
      [] state = "Failed" -> "Linear issue marked as Failed"
      [] OTHER -> "Linear issue marked as"

\* generateMetadataSyncOperations without its second test
generateMetadataSyncOperationsEventOnly(item) ==
    IF item.linearId # 0 /\ item.gcalId = 0
    THEN <<Operation("createGCalEvent", item, "Sync missing GCal event for Linear issue")>>
    ELSE <<>>

generateMetadataSyncOperations(item) ==
    (IF item.linearId # 0 /\ item.gcalId = 0
     THEN <<Operation("createGCalEvent", item, "Sync missing GCal event for Linear issue")>>
     ELSE <<>>)
    \o
    (IF item.gcalId # 0 /\ item.linearId = 0
     THEN <<Operation("createLinearIssue", item, "Sync missing Linear issue for GCal event")>>
     ELSE <<>>)

\* faulty variants of generateOperationsForItem share the rules they keep
EventOnlyOperations(item) ==
    <<Operation("createLinearIssueAndUpdateGCal",
                [item EXCEPT !.linearState = "Triage",
                             !.title = addPrefix(item.title, PREFIX_TRIAGE)],
                "New GCal event needs Linear issue and title update")>>

LinearOnlyOperations(item) ==
    <<Operation("createGCalEventAndUpdateLinear",
                [item EXCEPT !.title = addPrefix(item.title, PREFIX_SCHEDULED)],
                "Scheduled Linear issue needs GCal event and metadata linking")>>

PairedOperations(item) ==
    CASE item.phase = "active" -> generateMetadataSyncOperations(item)
      [] item.phase = "completed" ->
            IF /\ item.gcalId # 0
               /\ item.linearState # "none"
               /\ item.currentGCalTitle #
                    addPrefix(item.title, getCompletionPrefix(item.linearState))
            THEN <<Operation("patchGCalEvent",
                             [item EXCEPT !.title =
                                addPrefix(item.title, getCompletionPrefix(item.linearState))],
                             CompletionReason(item.linearState))>>
            ELSE <<>>
      [] item.phase = "overdue" ->
            IF item.gcalId # 0
            THEN <<Operation("patchGCalEvent",
                             [item EXCEPT !.startTime = NoTime,
                                          !.endTime = NoTime,
                                          !.title = IF item.linearState = "Scheduled"
                                                    THEN addPrefix(item.title, PREFIX_SCHEDULED)
                                                    ELSE item.title],
                             "Rescheduling overdue event to new time slot")>>
            ELSE <<>>
      [] OTHER -> <<>>

\* a faulty variant: an event without issue gets a plain createLinearIssue
\* that carries the item as projected
generateOperationsForItemPlainCreate(item) ==
    CASE item.phase = "eventOnly" ->
            <<Operation("createLinearIssue", item,
                        "Sync missing Linear issue for GCal event")>>
      [] item.phase = "linearOnly" ->
            IF item.linearState = "Scheduled" THEN LinearOnlyOperations(item) ELSE <<>>
      [] OTHER -> PairedOperations(item)

\* a faulty variant: an issue without event gets an event whatever its state
generateOperationsForItemAnyState(item) ==
    CASE item.phase = "eventOnly" -> EventOnlyOperations(item)
      [] item.phase = "linearOnly" -> LinearOnlyOperations(item)
      [] OTHER -> PairedOperations(item)

generateOperationsForItem(item) ==
    CASE item.phase = "eventOnly" ->
            <<Operation("createLinearIssueAndUpdateGCal",
                        [item EXCEPT !.linearState = "Triage",
                                     !.title = addPrefix(item.title, PREFIX_TRIAGE)],
                        "New GCal event needs Linear issue and title update")>>
      [] item.phase = "linearOnly" ->
            IF item.linearState = "Scheduled"
            THEN <<Operation("createGCalEventAndUpdateLinear",
                             [item EXCEPT !.title = addPrefix(item.title, PREFIX_SCHEDULED)],
                             "Scheduled Linear issue needs GCal event and metadata linking")>>
            ELSE <<>>
      [] item.phase = "active" -> generateMetadataSyncOperations(item)
      [] item.phase = "completed" ->
            IF /\ item.gcalId # 0
               /\ item.linearState # "none"
               /\ item.currentGCalTitle #
                    addPrefix(item.title, getCompletionPrefix(item.linearState))
            THEN <<Operation("patchGCalEvent",
                             [item EXCEPT !.title =
                                addPrefix(item.title, getCompletionPrefix(item.linearState))],
                             CompletionReason(item.linearState))>>
            ELSE <<>>
      [] item.phase = "overdue" ->
            IF item.gcalId # 0
            THEN <<Operation("patchGCalEvent",
                             [item EXCEPT !.startTime = NoTime,
                                          !.endTime = NoTime,
                                          !.title = IF item.linearState = "Scheduled"
                                                    THEN addPrefix(item.title, PREFIX_SCHEDULED)
                                                    ELSE item.title],
                             "Rescheduling overdue event to new time slot")>>
            ELSE <<>>
      [] OTHER -> <<>>

RECURSIVE DiffFrom(_, _)
DiffFrom(its, i) ==
    IF i > Len(its) THEN <<>>
    ELSE generateOperationsForItem(its[i]) \o DiffFrom(its, i + 1)

diff(its) == DiffFrom(its, 1)

validateTransition(fromPhase, toPhase) ==
    CASE fromPhase = "eventOnly" -> toPhase \in {"active"}
      [] fromPhase = "linearOnly" -> toPhase \in {"active"}
      [] fromPhase = "active" -> toPhase \in {"active", "completed", "overdue"}
      [] fromPhase = "completed" -> FALSE
      [] fromPhase = "overdue" -> toPhase \in {"active"}
      [] OTHER -> FALSE

-----------------------------------------------------------------------------
(* scheduler.ts (src/unnamed/part_006) *)

\* the defaults of the two environment variables
WORK_START_HOUR == 9

WORK_END_HOUR == 17

WorkingHours(start, end, days) ==
    [startHour |-> start, endHour |-> end, workingDays |-> days]

\* SyncConfig.workingHours: the configuration of the run when the run states
\* one (hist.workingHours), the defaults with Monday to Friday otherwise
workingHours ==
    IF "workingHours" \in DOMAIN hist
    THEN hist.workingHours
    ELSE WorkingHours(WORK_START_HOUR, WORK_END_HOUR, {1, 2, 3, 4, 5})

startHour == workingHours.startHour

endHour == workingHours.endHour

workingDays == workingHours.workingDays

BUFFER_MINUTES == 15

SearchDays == 14

NoSlot == [startTime |-> NoTime, endTime |-> NoTime]

TimeSlot(s, e) == [startTime |-> DateTime(s), endTime |-> DateTime(e)]

\* dayjs(event.start.dateTime): dayjs(undefined) is the current time, so an
\* all-day event (start.date only) is read as starting and ending at t
EventStart(event, t) == IF event.start.kind = "dateTime" THEN event.start.t ELSE t

EventEnd(event, t) == IF event.end.kind = "dateTime" THEN event.end.t ELSE t

\* stable insertion of event e into a list sorted by start time
RECURSIVE InsertByStart(_, _, _)
InsertByStart(sorted, e, t) ==
    IF sorted = <<>> THEN <<e>>
    ELSE IF EventStart(e, t) < EventStart(Head(sorted), t)
         THEN <<e>> \o sorted
         ELSE <<Head(sorted)>> \o InsertByStart(Tail(sorted), e, t)

RECURSIVE SortByStart(_, _)
SortByStart(events, t) ==
    IF events = <<>> THEN <<>>
    ELSE The({InsertByStart(sorted, events[Len(events)], t) :
                sorted \in {SortByStart(SubSeq(events, 1, Len(events) - 1), t)}})

getEventsForDate(date, events, t) ==
    LET OnDate(event) ==
            \/ StartOfDay(EventStart(event, t)) = date
            \/ StartOfDay(EventEnd(event, t)) = date
            \/ (EventStart(event, t) < date /\ EventEnd(event, t) > EndOfDay(date))
    IN SelectSeq(events, OnDate)

\* first gap between consecutive events that holds the slot with both buffers
RECURSIVE FirstGap(_, _, _, _)
FirstGap(rel, i, durationMin, t) ==
    IF i > Len(rel) - 1 THEN NoSlot
    ELSE LET potentialStart == EventEnd(rel[i], t) + BUFFER_MINUTES
             potentialEnd == potentialStart + durationMin
         IN IF potentialEnd + BUFFER_MINUTES < EventStart(rel[i + 1], t)
            THEN TimeSlot(potentialStart, potentialEnd)
            ELSE FirstGap(rel, i + 1, durationMin, t)

findSlotInTimeRange(rangeStart, rangeEnd, durationMin, dayEvents, t) ==
    LET Relevant(event) ==
            EventStart(event, t) < rangeEnd /\ EventEnd(event, t) > rangeStart
    IN The({
        LET gap == FirstGap(rel, 1, durationMin, t)
            afterLast == EventEnd(rel[Len(rel)], t) + BUFFER_MINUTES
        IN IF rel = <<>>
           THEN IF rangeStart + durationMin > rangeEnd THEN NoSlot
                ELSE TimeSlot(rangeStart, rangeStart + durationMin)
           ELSE IF EventStart(rel[1], t) - rangeStart >= durationMin + BUFFER_MINUTES
           THEN TimeSlot(rangeStart, rangeStart + durationMin)
           ELSE IF gap # NoSlot THEN gap
           ELSE IF afterLast + durationMin < rangeEnd
           THEN TimeSlot(afterLast, afterLast + durationMin)
           ELSE NoSlot :
        rel \in {SelectSeq(dayEvents, Relevant)}})

findSlotOnDate(date, durationMin, existingEvents, t) ==
    LET preferredStart == Max(10, startHour)
        preferredEnd == Min(16, endHour)
        dayStart == date + Hours(startHour)
        dayEnd == date + Hours(endHour)
        preferredDayStart == date + Hours(preferredStart)
        preferredDayEnd == date + Hours(preferredEnd)
    IN The({
        LET preferredSlot == findSlotInTimeRange(preferredDayStart, preferredDayEnd,
                                                 durationMin, dayEvents, t)
        IN IF dayEvents = <<>>
           THEN TimeSlot(preferredDayStart, preferredDayStart + durationMin)
           ELSE IF preferredSlot # NoSlot THEN preferredSlot
           ELSE findSlotInTimeRange(dayStart, dayEnd, durationMin, dayEvents, t) :
        dayEvents \in {SortByStart(getEventsForDate(date, existingEvents, t), t)}})

\* a faulty variant with no fallback: the search gives up after its last day
RECURSIVE SearchFromGivingUp(_, _, _, _, _)
SearchFromGivingUp(currentDate, maxSearchDate, durationMin, existingEvents, t) ==
    IF ~(currentDate < maxSearchDate) THEN NoSlot
    ELSE IF DayOfWeek(currentDate) \notin workingDays
    THEN SearchFromGivingUp(currentDate + Days(1), maxSearchDate, durationMin,
                            existingEvents, t)
    ELSE The({IF slot # NoSlot THEN slot
              ELSE SearchFromGivingUp(currentDate + Days(1), maxSearchDate,
                                      durationMin, existingEvents, t) :
                slot \in {findSlotOnDate(currentDate, durationMin, existingEvents, t)}})

RECURSIVE SearchFrom(_, _, _, _, _)
SearchFrom(currentDate, maxSearchDate, durationMin, existingEvents, t) ==
    IF ~(currentDate < maxSearchDate)
    THEN LET fallbackStart == StartOfDay(maxSearchDate) + Hours(startHour)
         IN TimeSlot(fallbackStart, fallbackStart + durationMin)
    ELSE IF DayOfWeek(currentDate) \notin workingDays
    THEN SearchFrom(currentDate + Days(1), maxSearchDate, durationMin, existingEvents, t)
    ELSE The({IF slot # NoSlot THEN slot
              ELSE SearchFrom(currentDate + Days(1), maxSearchDate, durationMin,
                              existingEvents, t) :
                slot \in {findSlotOnDate(currentDate, durationMin, existingEvents, t)}})

\* request = {estimate, preferredDate}; t is the wall clock dayjs() reads
findNextAvailableSlot(estimate, preferredDate, existingEvents, t) ==
    LET durationMin == estimateToDuration(estimate)
        tomorrow == t + Days(1)
        startSearchDate == IF HasTime(preferredDate) /\ preferredDate.t > t
                           THEN preferredDate.t
                           ELSE tomorrow
        maxSearchDate == startSearchDate + Days(SearchDays)
    IN SearchFrom(StartOfDay(startSearchDate), maxSearchDate, durationMin,
                  existingEvents, t)

-----------------------------------------------------------------------------
(* The two clients (src/src/api-clients.ts): the external systems *)

\* w: the external world [issues, events, nextLinearId, nextGCalId]
World(issues, events, nl, ng) ==
    [issues |-> issues, events |-> events, nextLinearId |-> nl, nextGCalId |-> ng]

LookbackDays == 2

LookaheadDays == 14

\* events.list: an event is returned when it ends after timeMin and starts
\* before timeMax
EventsBetween(events, timeMin, timeMax) ==
    LET InWindow(e) == e.end.t > timeMin /\ e.start.t < timeMax
    IN SelectSeq(events, InWindow)

\* RealGCalApiClient.getEvents(calendarId, "", ""): the default time frame
getEventsDefault(events, t) ==
    EventsBetween(events, t - Days(LookbackDays), t + Days(LookaheadDays))

\* SyncWorker.fetchGCalEvents (worker.ts:128-145)
fetchGCalEvents(events, t) ==
    EventsBetween(events, StartOfDay(t - Days(LookbackDays)),
                  EndOfDay(t + Days(LookaheadDays)))

RECURSIVE ReferencedIssues(_, _, _)
ReferencedIssues(ids, i, issues) ==
    IF i > Len(ids) THEN <<>>
    ELSE LET issue == FindById(issues, ids[i], NoIssue)
         IN (IF issue # NoIssue THEN <<issue>> ELSE <<>>)
            \o ReferencedIssues(ids, i + 1, issues)

\* RealLinearApiClient.getTargetedIssues: one issue per referenced id, then
\* every Scheduled issue not fetched already
getTargetedIssues(issues, referencedIds) ==
    LET referenced == ReferencedIssues(referencedIds, 1, issues)
        existingIds == {referenced[i].id : i \in 1..Len(referenced)}
        IsNewScheduled(i) == i.state = "Scheduled" /\ i.id \notin existingIds
    IN referenced \o SelectSeq(issues, IsNewScheduled)

\* worker.ts:43-45
referencedLinearIds(events) ==
    LET HasLink(e) == e.linearIssueId # 0
        linked == SelectSeq(events, HasLink)
    IN [i \in 1..Len(linked) |-> linked[i].linearIssueId]

\* issueCreate: the tracker assigns the id
clientCreateIssue(w, issue) ==
    [w EXCEPT !.issues = Append(w.issues, [issue EXCEPT !.id = w.nextLinearId]),
              !.nextLinearId = w.nextLinearId + 1]

\* issueUpdate with {description, dueDate}: an undefined field is left alone
clientUpdateIssue(w, id, description, targetDate) ==
    [w EXCEPT !.issues =
        [i \in 1..Len(w.issues) |->
            IF w.issues[i].id = id
            THEN [w.issues[i] EXCEPT
                    !.description = description,
                    !.targetDate = IF HasTime(targetDate) THEN targetDate ELSE @]
            ELSE w.issues[i]]]

\* events.insert: the calendar assigns the id
clientCreateEvent(w, event) ==
    [w EXCEPT !.events = Append(w.events, [event EXCEPT !.id = w.nextGCalId]),
              !.nextGCalId = w.nextGCalId + 1]

\* events.patch: an undefined field is left alone
clientUpdateEvent(w, id, summary, description, start, end, uid, linearIssueId) ==
    [w EXCEPT !.events =
        [i \in 1..Len(w.events) |->
            IF w.events[i].id = id
            THEN [w.events[i] EXCEPT
                    !.summary = summary,
                    !.description = description,
                    !.start = IF HasTime(start) THEN start ELSE @,
                    !.end = IF HasTime(end) THEN end ELSE @,
                    !.uid = IF uid # NoUid THEN uid ELSE @,
                    !.linearIssueId = IF linearIssueId # 0 THEN linearIssueId ELSE @]
            ELSE w.events[i]]]

-----------------------------------------------------------------------------
(* actuator.ts (src/src/actuator.ts) *)

\* outcome of one operation: the world after it and what execute records
Null == [null |-> TRUE]

Returned(w, entity) ==
    [w |-> w, success |-> TRUE, result |-> entity, error |-> "null"]

Thrown(w, message) ==
    [w |-> w, success |-> FALSE, result |-> Null, error |-> message]

ClientError == "client error"

cleanDescription(description) ==
    LET Keep(line) == line.k # "gcal"
    IN TrimLinesRight(TrimLinesLeft(SelectSeq(description, Keep)))

\* the description written to an event: the Linear link, then the cleaned notes
EventDescription(linearId, description) ==
    IF linearId # 0
    THEN PrependLine(LinkLine(linearId), cleanDescription(description))
    ELSE cleanDescription(description)

\* the description written to an issue: the calendar metadata, then the notes
IssueDescription(gcalId, startTime, durationMin, description) ==
    IF gcalId # 0 /\ HasTime(startTime) /\ durationMin # 0
    THEN PrependLine(MetaLine(gcalId, startTime, durationMin), description)
    ELSE description

\* throws names the client call that throws: "none", "primary" or "secondary"
createLinearIssue(w, item, throws) ==
    LET issue == LinearIssue(0, addPrefix(item.title, PREFIX_TRIAGE),
                     IssueDescription(item.gcalId, item.startTime,
                                      item.durationMin, item.description),
                     "Triage", item.startTime, estimateToPoints(item.estimate))
    IN IF throws = "primary" THEN Thrown(w, ClientError)
       ELSE Returned(clientCreateIssue(w, issue),
                     [issue EXCEPT !.id = w.nextLinearId])

createGCalEvent(w, item, throws, t) ==
    LET needsScheduling == \/ ~HasTime(item.startTime)
                           \/ ~HasTime(item.endTime)
                           \/ item.startTime.kind = "date"
        slot == IF needsScheduling
                THEN findNextAvailableSlot(
                        item.estimate,
                        IF item.startTime.kind = "date" THEN item.startTime ELSE NoTime,
                        getEventsDefault(w.events, t), t)
                ELSE NoSlot
    IN The({IF throws = "primary" THEN Thrown(w, ClientError)
            ELSE Returned(clientCreateEvent(w, event),
                          [event EXCEPT !.id = w.nextGCalId]) :
        event \in {GCalEvent(0, addPrefix(item.title, PREFIX_SCHEDULED),
                       EventDescription(item.linearId, item.description),
                       IF needsScheduling THEN slot.startTime ELSE item.startTime,
                       IF needsScheduling THEN slot.endTime ELSE item.endTime,
                       item.uid, item.linearId)}})

patchGCalEvent(w, item, throws) ==
    IF item.gcalId = 0 THEN Thrown(w, "Cannot patch GCal event without gcalId")
    ELSE IF throws = "primary" \/ FindById(w.events, item.gcalId, NoEvent) = NoEvent
    THEN Thrown(w, ClientError)
    ELSE LET timed == HasTime(item.startTime) /\ HasTime(item.endTime)
             w1 == clientUpdateEvent(w, item.gcalId, item.title,
                       EventDescription(item.linearId, item.description),
                       IF timed THEN DateTime(item.startTime.t) ELSE NoTime,
                       IF timed THEN DateTime(item.endTime.t) ELSE NoTime,
                       item.uid, item.linearId)
         IN Returned(w1, FindById(w1.events, item.gcalId, NoEvent))

patchLinearIssue(w, item, throws) ==
    IF item.linearId = 0 THEN Thrown(w, "Cannot patch Linear issue without linearId")
    ELSE IF throws = "primary" \/ FindById(w.issues, item.linearId, NoIssue) = NoIssue
    THEN Thrown(w, ClientError)
    ELSE LET w0 == clientUpdateIssue(w, item.linearId,
                       IssueDescription(item.gcalId, item.startTime,
                                        item.durationMin, item.description),
                       item.startTime)
             w1 == [w0 EXCEPT !.issues =
                       [i \in 1..Len(w0.issues) |->
                           IF w0.issues[i].id = item.linearId
                           THEN [w0.issues[i] EXCEPT
                                   !.title = IF item.title # <<>> THEN item.title ELSE @,
                                   !.state = IF item.linearState # "none"
                                             THEN item.linearState ELSE @]
                           ELSE w0.issues[i]]]
         IN Returned(w1, FindById(w1.issues, item.linearId, NoIssue))

createRescheduledEvent(w, item, throws, t) ==
    LET needsScheduling == ~HasTime(item.startTime) \/ ~HasTime(item.endTime)
        slot == IF needsScheduling
                THEN findNextAvailableSlot(item.estimate, NoTime,
                                           getEventsDefault(w.events, t), t)
                ELSE NoSlot
    IN The({IF throws = "primary" THEN Thrown(w, ClientError)
            ELSE Returned(clientCreateEvent(w, event),
                          [event EXCEPT !.id = w.nextGCalId]) :
        event \in {GCalEvent(0, item.title,
                       EventDescription(item.linearId, item.description),
                       IF needsScheduling THEN slot.startTime ELSE item.startTime,
                       IF needsScheduling THEN slot.endTime ELSE item.endTime,
                       item.uid, item.linearId)}})

\* a faulty variant with no try/catch around the update of the event
createLinearIssueAndUpdateGCalRethrowing(w, item, throws) ==
    The({IF ~created.success THEN created
         ELSE IF item.gcalId # 0 /\ throws = "secondary"
         THEN Thrown(created.w, ClientError)
         ELSE IF item.gcalId # 0 /\ FindById(w.events, item.gcalId, NoEvent) # NoEvent
         THEN Returned(clientUpdateEvent(created.w, item.gcalId, item.title,
                          PrependLine(LinkLine(created.result.id),
                                      cleanDescription(item.description)),
                          NoTime, NoTime, item.uid, created.result.id),
                       created.result)
         ELSE created :
     created \in {createLinearIssue(w, item, throws)}})

createLinearIssueAndUpdateGCal(w, item, throws) ==
    LET secondaryOk == /\ throws # "secondary"
                       /\ FindById(w.events, item.gcalId, NoEvent) # NoEvent
    IN The({IF ~created.success THEN created
            ELSE IF item.gcalId # 0 /\ secondaryOk
            THEN Returned(clientUpdateEvent(created.w, item.gcalId, item.title,
                             PrependLine(LinkLine(created.result.id),
                                         cleanDescription(item.description)),
                             NoTime, NoTime, item.uid, created.result.id),
                          created.result)
            ELSE created :
        created \in {createLinearIssue(w, item, throws)}})

createGCalEventAndUpdateLinear(w, item, throws, t) ==
    LET secondaryOk == /\ throws # "secondary"
                       /\ FindById(w.issues, item.linearId, NoIssue) # NoIssue
    IN The({IF ~created.success THEN created
            ELSE IF item.linearId # 0 /\ secondaryOk
            THEN Returned(clientUpdateIssue(created.w, item.linearId,
                             IssueDescription(created.result.id, item.startTime,
                                              item.durationMin, item.description),
                             item.startTime),
                          created.result)
            ELSE created :
        created \in {createGCalEvent(w, item, throws, t)}})

executeOperation(w, operation, throws, t) ==
    CASE operation.type = "createLinearIssue" ->
            createLinearIssue(w, operation.item, throws)
      [] operation.type = "createGCalEvent" ->
            createGCalEvent(w, operation.item, throws, t)
      [] operation.type = "patchGCalEvent" ->
            patchGCalEvent(w, operation.item, throws)
      [] operation.type = "patchLinearIssue" ->
            patchLinearIssue(w, operation.item, throws)
      [] operation.type = "createRescheduledEvent" ->
            createRescheduledEvent(w, operation.item, throws, t)
      [] operation.type = "createLinearIssueAndUpdateGCal" ->
            createLinearIssueAndUpdateGCal(w, operation.item, throws)
      [] operation.type = "createGCalEventAndUpdateLinear" ->
            createGCalEventAndUpdateLinear(w, operation.item, throws, t)
      [] operation.type = "noop" -> Returned(w, Null)
      [] OTHER -> Thrown(w, "Unknown operation type")

\* one turn of the loop of Actuator.execute: the result pushed for the operation
ExecutionResult(operation, outcome) ==
    [operation |-> operation, success |-> outcome.success,
     result |-> outcome.result, error |-> outcome.error]

\* whether the operation makes a second client call that may throw
HasSecondaryCall(operation) ==
    \/ operation.type = "createLinearIssueAndUpdateGCal" /\ operation.item.gcalId # 0
    \/ operation.type = "createGCalEventAndUpdateLinear" /\ operation.item.linearId # 0

-----------------------------------------------------------------------------
(* Bounds and the external states a run starts from *)

MaxPasses == 3

MaxFailures == 1

\* ids handed out by the two systems start here; smaller ids are initial ones
FirstNewId == 10

\* the wall clock: day 10 (a Wednesday), 12:00
Now0 == Days(10) + Hours(12)

TitleA == <<97>>

\* end of an initial event, relative to the wall clock
EndOffsets == {-Hours(30), Hours(26)}

InitIssueChoices ==
    {LinearIssue(1, TitleA, description, state, targetDate, estimate) :
        description \in {<<>>, <<MetaLine(1, DateTime(Now0 - Hours(31)), 60)>>},
        state \in {"Triage", "Scheduled", "Done"},
        targetDate \in {NoTime, DateOnly(Days(12)), DateOnly(Days(40))},
        estimate \in {0, 3}}

InitEventChoices ==
    {GCalEvent(1, summary, <<>>, DateTime(Now0 + off - Hours(1)), DateTime(Now0 + off),
               bag[1], bag[2]) :
        summary \in {TitleA, PREFIX_DONE \o TitleA},
        off \in EndOffsets,
        bag \in {<<NoUid, 0>>, <<ExtUid(1), 1>>, <<NoUid, 1>>}}

\* Observations kept for the properties:
\*   prevItems    the items of the pass before
\*   cleanPasses  the number of passes completed in a row, up to the last one,
\*                in which no client call threw and every result is a success
\*   curThrows    the client calls that threw in the current pass
\*   thrownAt     the operations of the current pass that threw: index, message
\*   firstUid     the uid first assigned to each event
\*   unlinked     the (issue, event) pairs whose linking call threw
\*   calls        for each result of the current pass, the client call that threw
\*   returned     the SyncResult of the last pass that has returned
\*   afterFirst   the two systems as an operation left them, kept when the
\*                operation is executed once more
\*   atSync       the two systems as the current pass found them
NoHist == [prevItems |-> <<>>, cleanPasses |-> 0, curThrows |-> 0, thrownAt |-> {},
           firstUid |-> {}, unlinked |-> {}, calls |-> <<>>, returned |-> Null,
           afterFirst |-> Null, atSync |-> Null]

Init ==
    /\ now = Now0
    /\ linearIssues \in {<<>>} \cup {<<i>> : i \in InitIssueChoices}
    /\ gcalEvents \in {<<>>} \cup {<<e>> : e \in InitEventChoices}
    /\ nextLinearId = FirstNewId
    /\ nextGCalId = FirstNewId
    /\ uidCounter = 0
    /\ pc = "idle"
    /\ items = <<>>
    /\ operations = <<>>
    /\ results = <<>>
    /\ passes = 0
    /\ failures = 0
    /\ hist = NoHist

-----------------------------------------------------------------------------
(* worker.ts: SyncWorker.sync *)

\* the uid first assigned to each event, kept for the properties
RecordFirstUids(seen, its) ==
    seen \cup {[id |-> its[i].gcalId, uid |-> its[i].uid] :
                 i \in {j \in 1..Len(its) :
                          /\ its[j].gcalId # 0
                          /\ \A r \in seen : r.id # its[j].gcalId}}

\* lines 29-79: observe, project, diff
Sync ==
    /\ pc = "idle"
    /\ passes < MaxPasses
    /\ \E events \in {fetchGCalEvents(gcalEvents, now)} :
       \E issues \in {getTargetedIssues(linearIssues, referencedLinearIds(events))} :
       \E projection \in {project(issues, events, now, uidCounter)} :
          /\ items' = projection.items
          /\ uidCounter' = projection.ctr
          /\ operations' = diff(projection.items)
          /\ hist' = [hist EXCEPT !.firstUid = RecordFirstUids(@, projection.items),
                                  !.curThrows = 0,
                                  !.thrownAt = {},
                                  !.calls = <<>>,
                                  !.atSync = [issues |-> linearIssues,
                                              events |-> gcalEvents]]
    /\ results' = <<>>
    /\ pc' = "executing"
    /\ UNCHANGED <<now, linearIssues, gcalEvents, nextLinearId, nextGCalId,
                   passes, failures>>

\* lines 97-103 and 109-115: the value sync returns (timestamp and duration
\* are left out)
SyncResult(itemsProcessed, operationsExecuted, errors) ==
    [itemsProcessed |-> itemsProcessed, operationsExecuted |-> operationsExecuted,
     errors |-> errors]

\* lines 91-93: the errors of the results that are not a success
CollectErrors(rs) ==
    LET Failed(r) == ~r.success
    IN The({[i \in 1..Len(failed) |-> failed[i].error] :
               failed \in {SelectSeq(rs, Failed)}})

\* the message of the error a snapshot fetch throws, by the client that throws
FetchErrors == {"gcal fetch error", "linear fetch error"}

\* a faulty variant of the catch block that reports what the pass before left
SyncFetchFailsStale ==
    /\ pc = "idle"
    /\ passes < MaxPasses
    /\ failures < MaxFailures
    /\ UNCHANGED <<items, operations, results>>
    /\ passes' = passes + 1
    /\ failures' = failures + 1
    /\ \E message \in FetchErrors :
          hist' = [hist EXCEPT !.prevItems = <<>>, !.cleanPasses = 0,
                               !.curThrows = 0, !.thrownAt = {}, !.calls = <<>>,
                               !.returned = SyncResult(Len(items), operations,
                                                       <<message>>)]
    /\ UNCHANGED <<now, linearIssues, gcalEvents, nextLinearId, nextGCalId,
                   uidCounter, pc>>

\* lines 40, 48 and 106-116: a snapshot fetch throws, the pass ends with that
\* one error
SyncFetchFails ==
    /\ pc = "idle"
    /\ passes < MaxPasses
    /\ failures < MaxFailures
    /\ items' = <<>>
    /\ operations' = <<>>
    /\ results' = <<>>
    /\ passes' = passes + 1
    /\ failures' = failures + 1
    /\ \E message \in FetchErrors :
          hist' = [hist EXCEPT !.prevItems = <<>>, !.cleanPasses = 0,
                               !.curThrows = 0, !.thrownAt = {}, !.calls = <<>>,
                               !.returned = SyncResult(0, <<>>, <<message>>)]
    /\ UNCHANGED <<now, linearIssues, gcalEvents, nextLinearId, nextGCalId,
                   uidCounter, pc>>

\* the pair a composite operation has created but failed to link
Unlinked(operation, outcome) ==
    IF operation.type = "createLinearIssueAndUpdateGCal"
    THEN [linearId |-> outcome.result.id, gcalId |-> operation.item.gcalId]
    ELSE [linearId |-> operation.item.linearId, gcalId |-> outcome.result.id]

\* what one turn of the loop adds to the observations
Observe(h, operation, outcome, throws, index) ==
    [h EXCEPT !.calls = Append(@, throws),
              !.curThrows = IF throws = "none" THEN @ ELSE @ + 1,
              !.thrownAt = IF outcome.success THEN @
                           ELSE @ \cup {[index |-> index, message |-> outcome.error]},
              !.unlinked = IF throws = "secondary" /\ outcome.success
                           THEN @ \cup {Unlinked(operation, outcome)}
                           ELSE @]

\* a faulty variant of the loop of Actuator.execute with no try/catch: an
\* operation that throws ends the loop, and sync returns what was pushed so far
ExecuteOperationAborting(throws) ==
    /\ pc = "executing"
    /\ Len(results) < Len(operations)
    /\ throws # "none" => failures < MaxFailures
    /\ \E operation \in {operations[Len(results) + 1]} :
          /\ throws = "secondary" => HasSecondaryCall(operation)
          /\ \E outcome \in {executeOperation(
                                 World(linearIssues, gcalEvents, nextLinearId,
                                       nextGCalId),
                                 operation, throws, now)} :
                /\ linearIssues' = outcome.w.issues
                /\ gcalEvents' = outcome.w.events
                /\ nextLinearId' = outcome.w.nextLinearId
                /\ nextGCalId' = outcome.w.nextGCalId
                /\ results' = IF outcome.success
                              THEN Append(results, ExecutionResult(operation, outcome))
                              ELSE results
                /\ pc' = IF outcome.success THEN pc ELSE "idle"
                /\ passes' = IF outcome.success THEN passes ELSE passes + 1
                /\ hist' = Observe(hist, operation, outcome, throws, Len(results) + 1)
    /\ failures' = IF throws = "none" THEN failures ELSE failures + 1
    /\ UNCHANGED <<now, uidCounter, items, operations>>

\* actuator.ts:76-93: one turn of the loop of Actuator.execute
ExecuteOperation(throws) ==
    /\ pc = "executing"
    /\ Len(results) < Len(operations)
    /\ throws # "none" => failures < MaxFailures
    /\ \E operation \in {operations[Len(results) + 1]} :
          /\ throws = "secondary" => HasSecondaryCall(operation)
          /\ \E outcome \in {executeOperation(
                                 World(linearIssues, gcalEvents, nextLinearId,
                                       nextGCalId),
                                 operation, throws, now)} :
                /\ linearIssues' = outcome.w.issues
                /\ gcalEvents' = outcome.w.events
                /\ nextLinearId' = outcome.w.nextLinearId
                /\ nextGCalId' = outcome.w.nextGCalId
                /\ results' = Append(results, ExecutionResult(operation, outcome))
                /\ hist' = Observe(hist, operation, outcome, throws, Len(results) + 1)
    /\ failures' = IF throws = "none" THEN failures ELSE failures + 1
    /\ UNCHANGED <<now, uidCounter, pc, items, operations, passes>>

\* lines 85-105: execute has returned, sync returns its SyncResult
SyncReturns ==
    /\ pc = "executing"
    /\ Len(results) = Len(operations)
    /\ pc' = "idle"
    /\ passes' = passes + 1
    /\ hist' = [hist EXCEPT
                   !.prevItems = items,
                   !.returned = SyncResult(Len(items), operations,
                                           CollectErrors(results)),
                   !.cleanPasses =
                       IF /\ hist.curThrows = 0
                          /\ \A k \in 1..Len(results) : results[k].success
                       THEN @ + 1 ELSE 0]
    /\ UNCHANGED <<now, linearIssues, gcalEvents, nextLinearId, nextGCalId,
                   uidCounter, items, operations, results, failures>>

Next ==
    \/ Sync
    \/ SyncFetchFails
    \/ \E throws \in {"none", "primary", "secondary"} : ExecuteOperation(throws)
    \/ SyncReturns

Spec == Init /\ [][Next]_vars

\* actuator.ts:98-129 called once more with the Operation value it has just
\* executed with success, as a caller that runs an operation again would
ExecuteOperationAgain ==
    /\ pc = "executing"
    /\ Len(results) >= 1
    /\ results[Len(results)].success
    /\ \E outcome \in {executeOperation(
                            World(linearIssues, gcalEvents, nextLinearId, nextGCalId),
                            results[Len(results)].operation, "none", now)} :
          /\ linearIssues' = outcome.w.issues
          /\ gcalEvents' = outcome.w.events
          /\ nextLinearId' = outcome.w.nextLinearId
          /\ nextGCalId' = outcome.w.nextGCalId
    /\ hist' = [hist EXCEPT !.afterFirst =
                   [issues |-> linearIssues, events |-> gcalEvents]]
    /\ pc' = "retried"
    /\ UNCHANGED <<now, uidCounter, items, operations, results, passes, failures>>

\* the passes of the worker without failures, and one operation run again
NextRetry ==
    \/ Sync
    \/ ExecuteOperation("none")
    \/ SyncReturns
    \/ ExecuteOperationAgain

SpecRetry == Init /\ [][NextRetry]_vars

\* the passes of the worker over two Scheduled issues that have no event yet,
\* so that one pass creates two events; no client call throws
InitBatch ==
    /\ now = Now0
    /\ linearIssues \in
          {<<LinearIssue(1, TitleA, <<>>, "Scheduled", dates[1], points[1]),
             LinearIssue(2, TitleA, <<>>, "Scheduled", dates[2], points[2])>> :
              dates \in {NoTime, DateOnly(Days(12)), DateOnly(Days(40))}
                       \X {NoTime, DateOnly(Days(12)), DateOnly(Days(40))},
              points \in {0, 3} \X {0, 3}}
    /\ gcalEvents = <<>>
    /\ nextLinearId = FirstNewId
    /\ nextGCalId = FirstNewId
    /\ uidCounter = 0
    /\ pc = "idle"
    /\ items = <<>>
    /\ operations = <<>>
    /\ results = <<>>
    /\ passes = 0
    /\ failures = 0
    /\ hist = NoHist

NextBatch ==
    \/ Sync
    \/ ExecuteOperation("none")
    \/ SyncReturns

SpecBatch == InitBatch /\ [][NextBatch]_vars

-----------------------------------------------------------------------------
(* project and diff as pure functions: the inputs are drawn from two        *)
(* families, one that varies presence, state and end time of a linked pair,  *)
(* one that varies who names whom among up to MaxLen issues and events       *)

MaxLen == 2

\* end of the event, relative to the wall clock
PhaseOffsets ==
    {-Hours(30), -Hours(25), -(Hours(24) + 30), -Hours(24), -Hours(1), Hours(26)}

PhaseIssueLists ==
    {<<>>} \cup {<<LinearIssue(1, TitleA, <<>>, state, NoTime, 0)>> :
                    state \in LinearStates}

PhaseEventLists ==
    {<<>>} \cup {<<GCalEvent(1, TitleA, <<>>, DateTime(Now0 + off - Hours(1)),
                             DateTime(Now0 + off), ExtUid(1), 1)>> :
                    off \in PhaseOffsets}

\* the issue at position k: its metadata names no event or any one event
PairIssueAt(k) ==
    {LinearIssue(k, TitleA, description, "Scheduled", NoTime, 0) :
        description \in {<<>>} \cup
            {<<MetaLine(g, DateTime(Now0 + Hours(25)), 60)>> : g \in 1..MaxLen}}

\* the event at position k: its private bag names no issue or any one issue,
\* and carries no uid or the uid ExtUid(1); the notes of the first event may
\* hold a link typed by a user, to the last issue
PairEventAt(k) ==
    {GCalEvent(k, TitleA, description, DateTime(Now0 + Hours(25)),
               DateTime(Now0 + Hours(26)), uid, linearIssueId) :
        description \in IF k = 1 THEN {<<>>, <<UrlLine(MaxLen)>>} ELSE {<<>>},
        uid \in {NoUid, ExtUid(1)},
        linearIssueId \in 0..MaxLen}

PairIssueLists ==
    UNION {{l \in [1..n -> UNION {PairIssueAt(k) : k \in 1..n}] :
                \A k \in 1..n : l[k].id = k} : n \in 0..MaxLen}

PairEventLists ==
    UNION {{l \in [1..n -> UNION {PairEventAt(k) : k \in 1..n}] :
                \A k \in 1..n : l[k].id = k} : n \in 0..MaxLen}

TitleB == <<98>>

\* a third family varies the titles of an issue and of an event that names
\* it or not: bare, or with the glyph of a terminal state in front
TitleIssueLists ==
    {<<>>} \cup {<<LinearIssue(1, title, <<>>, state, NoTime, 0)>> :
                    title \in {TitleA, PREFIX_DONE \o TitleA},
                    state \in LinearStates}

TitleEventLists ==
    {<<>>} \cup {<<GCalEvent(1, prefix \o title, <<>>, DateTime(Now0 + Hours(25)),
                             DateTime(Now0 + Hours(26)), ExtUid(1), linearIssueId)>> :
                    prefix \in {<<>>, PREFIX_DONE, PREFIX_CANCELED, PREFIX_FAILED},
                    title \in {TitleA, TitleB},
                    linearIssueId \in {0, 1}}

\* a fourth family: one issue whose notes hold two metadata lines, as they
\* pile up when an event is created for the issue again; each line names
\* event 1 or an event that is not in the snapshot
StaleIssueLists ==
    {<<LinearIssue(1, TitleA,
                   <<MetaLine(g1, DateTime(Now0 + Hours(25)), 60), BlankLine,
                     MetaLine(g2, DateTime(Now0 + Hours(25)), 60)>>,
                   "Scheduled", NoTime, 0)>> :
        g1 \in {1, FirstNewId - 1}, g2 \in {1, FirstNewId - 2}}

StaleEventLists ==
    {<<>>} \cup {<<GCalEvent(1, TitleA, <<>>, DateTime(Now0 + Hours(25)),
                             DateTime(Now0 + Hours(26)), ExtUid(1), linearIssueId)>> :
                    linearIssueId \in {0, 1}}

\* a fifth family varies what the fields of an item are fused from: title,
\* target date and point value of an issue, title and length of an event
\* (minutes between two date-times, or one day between two dates)
FusionIssueLists ==
    {<<>>} \cup {<<LinearIssue(1, title, <<>>, "Scheduled", targetDate, estimate)>> :
                    title \in {TitleA, PREFIX_SCHEDULED \o TitleA, PREFIX_TRIAGE \o TitleB},
                    targetDate \in {NoTime, DateOnly(Days(12))},
                    estimate \in {0, 1, 4, 8}}

FusionEventLists ==
    {<<>>}
    \cup {<<GCalEvent(1, PREFIX_SCHEDULED \o TitleB, <<>>, DateTime(Now0 + Hours(25)),
                      DateTime(Now0 + Hours(25) + length), ExtUid(1), linearIssueId)>> :
            length \in {0, 22, 23, 60, 200}, linearIssueId \in {0, 1}}
    \cup {<<GCalEvent(1, TitleB, <<>>, DateOnly(Days(11)), DateOnly(Days(12)),
                      ExtUid(1), linearIssueId)>> : linearIssueId \in {0, 1}}

\* in this specification hist holds the output of the first run and the two
\* orphan lists project returned
InitProject ==
    /\ now = Now0
    /\ \/ linearIssues \in PhaseIssueLists /\ gcalEvents \in PhaseEventLists
       \/ linearIssues \in PairIssueLists /\ gcalEvents \in PairEventLists
       \/ linearIssues \in TitleIssueLists /\ gcalEvents \in TitleEventLists
       \/ linearIssues \in StaleIssueLists /\ gcalEvents \in StaleEventLists
       \/ linearIssues \in FusionIssueLists /\ gcalEvents \in FusionEventLists
    /\ nextLinearId = FirstNewId
    /\ nextGCalId = FirstNewId
    /\ uidCounter = 0
    /\ pc = "input"
    /\ items = <<>>
    /\ operations = <<>>
    /\ results = <<>>
    /\ passes = 0
    /\ failures = 0
    /\ hist = [prevItems |-> <<>>, prevOperations |-> <<>>,
               orphanedLinearIssues |-> Null, orphanedGCalEvents |-> Null]

\* project({linearIssues, gcalEvents, now}), then diff(projection.items)
Project ==
    /\ pc = "input"
    /\ \E projection \in {project(linearIssues, gcalEvents, now, uidCounter)} :
          /\ items' = projection.items
          /\ uidCounter' = projection.ctr
          /\ operations' = diff(projection.items)
          /\ hist' = [hist EXCEPT
                        !.orphanedLinearIssues = projection.orphanedLinearIssues,
                        !.orphanedGCalEvents = projection.orphanedGCalEvents]
    /\ pc' = "projected"
    /\ UNCHANGED <<now, linearIssues, gcalEvents, nextLinearId, nextGCalId,
                   results, passes, failures>>

\* the same two calls once more, on the same inputs
ProjectAgain ==
    /\ pc = "projected"
    /\ \E projection \in {project(linearIssues, gcalEvents, now, uidCounter)} :
          /\ items' = projection.items
          /\ uidCounter' = projection.ctr
          /\ operations' = diff(projection.items)
    /\ hist' = [hist EXCEPT !.prevItems = items, !.prevOperations = operations]
    /\ pc' = "reprojected"
    /\ UNCHANGED <<now, linearIssues, gcalEvents, nextLinearId, nextGCalId,
                   results, passes, failures>>

NextProject ==
    \/ Project
    \/ ProjectAgain

SpecProject == InitProject /\ [][NextProject]_vars

-----------------------------------------------------------------------------
(* findNextAvailableSlot as a pure function: the request and the list of     *)
(* existing events are drawn from bounded sets, one action applies it        *)

MaxEvents == 2

\* the first day the search looks at when no date is preferred: tomorrow
Day1 == StartOfDay(Now0) + Days(1)

\* start and end of an existing event, in minutes from the start of Day1:
\* inside and at the edges of the preferred hours, nested in one another,
\* on the day after, one event that covers every day of the search, and one
\* that covers SearchDays days and ends at midnight
EventSpans ==
    {<<Hours(9), Hours(10)>>, <<Hours(10), Hours(15)>>, <<Hours(11), Hours(12)>>,
     <<Hours(10), Hours(15) + 15>>, <<Hours(10) + 30, Hours(16)>>,
     <<Hours(16), Hours(17)>>, <<Days(1) + Hours(10), Days(1) + Hours(11)>>,
     <<0, Days(SearchDays + 2)>>, <<0, Days(SearchDays)>>}

SchedulerEventLists ==
    UNION {{[k \in 1..n |->
                GCalEvent(k, TitleA, <<>>, DateTime(Day1 + spans[k][1]),
                          DateTime(Day1 + spans[k][2]), NoUid, 0)] :
               spans \in [1..n -> EventSpans]} : n \in 0..MaxEvents}

\* request.preferredDate: none, a date in the past, the day after tomorrow
PreferredDates == {NoTime, DateOnly(StartOfDay(Now0) - Days(3)), DateOnly(Day1 + Days(1))}

\* in this specification hist holds the request and the slot returned
InitScheduler ==
    /\ now = Now0
    /\ linearIssues = <<>>
    /\ gcalEvents \in SchedulerEventLists
    /\ nextLinearId = FirstNewId
    /\ nextGCalId = FirstNewId
    /\ uidCounter = 0
    /\ pc = "request"
    /\ items = <<>>
    /\ operations = <<>>
    /\ results = <<>>
    /\ passes = 0
    /\ failures = 0
    /\ hist \in {[estimate |-> estimate, preferredDate |-> preferredDate,
                   slot |-> NoSlot] :
                     estimate \in Estimates, preferredDate \in PreferredDates}

\* scheduler.findNextAvailableSlot({estimate, preferredDate}, existingEvents)
Schedule ==
    /\ pc = "request"
    /\ \E slot \in {findNextAvailableSlot(hist.estimate, hist.preferredDate,
                                           gcalEvents, now)} :
          hist' = [hist EXCEPT !.slot = slot]
    /\ pc' = "scheduled"
    /\ UNCHANGED <<now, linearIssues, gcalEvents, nextLinearId, nextGCalId,
                   uidCounter, items, operations, results, passes, failures>>

NextScheduler == Schedule

SpecScheduler == InitScheduler /\ [][NextScheduler]_vars

\* the same call under other configurations of the working hours: the
\* defaults, a morning (9-13), hours that end before 10 (6-9), each with
\* Monday to Friday or with Tuesday and Thursday as working days
WorkingHoursChoices ==
    {WorkingHours(hours[1], hours[2], days) :
        hours \in {<<WORK_START_HOUR, WORK_END_HOUR>>, <<9, 13>>, <<6, 9>>},
        days \in {{1, 2, 3, 4, 5}, {2, 4}}}

\* in this specification hist holds the request, the configuration and the
\* slot returned
InitWorkingHours ==
    /\ now = Now0
    /\ linearIssues = <<>>
    /\ gcalEvents \in SchedulerEventLists
    /\ nextLinearId = FirstNewId
    /\ nextGCalId = FirstNewId
    /\ uidCounter = 0
    /\ pc = "request"
    /\ items = <<>>
    /\ operations = <<>>
    /\ results = <<>>
    /\ passes = 0
    /\ failures = 0
    /\ hist \in {[estimate |-> estimate, preferredDate |-> preferredDate,
                   workingHours |-> hours, slot |-> NoSlot] :
                     estimate \in Estimates, preferredDate \in PreferredDates,
                     hours \in WorkingHoursChoices}

SpecWorkingHours == InitWorkingHours /\ [][NextScheduler]_vars

-----------------------------------------------------------------------------
(* The calendar metadata as text: what the Actuator writes into the notes of *)
(* an issue and what metadata-parser.ts reads back, character by character   *)

\* "<!-- calendar-sync --> GoogleCalEventId:"
TagText ==
    <<60, 33, 45, 45, 32, 99, 97, 108, 101, 110, 100, 97, 114, 45, 115,
      121, 110, 99, 32, 45, 45, 62, 32, 71, 111, 111, 103, 108, 101, 67,
      97, 108, 69, 118, 101, 110, 116, 73, 100, 58>>

\* " | Start:"
StartText ==
    <<32, 124, 32, 83, 116, 97, 114, 116, 58>>

\* " | DurMin:"
DurMinText ==
    <<32, 124, 32, 68, 117, 114, 77, 105, 110, 58>>

\* `${n}` for an integer n
RECURSIVE ToDecimal(_)
ToDecimal(n) ==
    IF n < 0 THEN <<45>> \o ToDecimal(-n)
    ELSE IF n < 10 THEN <<48 + n>>
    ELSE ToDecimal(n \div 10) \o <<48 + (n % 10)>>

\* parseInt(digits, 10)
RECURSIVE ParseInt(_)
ParseInt(digits) ==
    IF digits = <<>> THEN 0
    ELSE 10 * ParseInt(SubSeq(digits, 1, Len(digits) - 1))
            + (digits[Len(digits)] - 48)

\* actuator.ts:134-137: the metadata line, then the notes when there are any
MetadataText(gcalId, startTime, durationMin) ==
    TagText \o gcalId \o StartText \o startTime \o DurMinText
        \o ToDecimal(durationMin)

\* a faulty variant that writes the line after the notes
DescriptionTextAppending(gcalId, startTime, durationMin, description) ==
    IF gcalId # <<>> /\ startTime # <<>> /\ durationMin # 0
    THEN IF description # <<>>
         THEN description \o <<10, 10>> \o MetadataText(gcalId, startTime, durationMin)
         ELSE MetadataText(gcalId, startTime, durationMin)
    ELSE description

DescriptionText(gcalId, startTime, durationMin, description) ==
    IF gcalId # <<>> /\ startTime # <<>> /\ durationMin # 0
    THEN IF description # <<>>
         THEN MetadataText(gcalId, startTime, durationMin) \o <<10, 10>> \o description
         ELSE MetadataText(gcalId, startTime, durationMin)
    ELSE description

\* the regular expression of parseCalendarMetadataFromDescription, piece by
\* piece: a literal (matched without regard to case), \s*, a capture
\* ([^\s|]+) or a capture (\d+)
Lit(text) == [kind |-> "lit", lit |-> text]

Ws == [kind |-> "ws", lit |-> <<>>]

Cap == [kind |-> "cap", lit |-> <<>>]

Digits == [kind |-> "digits", lit |-> <<>>]

metadataPattern ==
    <<Lit(<<60, 33, 45, 45>>), Ws,
      Lit(<<99, 97, 108, 101, 110, 100, 97, 114, 45, 115, 121, 110, 99>>),
      Ws, Lit(<<45, 45, 62>>), Ws,
      Lit(<<103, 111, 111, 103, 108, 101, 99, 97, 108, 101, 118, 101, 110, 116, 105, 100, 58>>),
      Cap, Ws, Lit(<<124>>), Ws, Lit(<<115, 116, 97, 114, 116, 58>>), Cap, Ws,
      Lit(<<124>>), Ws, Lit(<<100, 117, 114, 109, 105, 110, 58>>), Digits>>

ToLowerCase(text) ==
    [i \in 1..Len(text) |-> IF text[i] \in 65..90 THEN text[i] + 32 ELSE text[i]]

InClass(c, kind) ==
    CASE kind = "ws" -> IsWhiteSpace(c)
      [] kind = "cap" -> ~IsWhiteSpace(c) /\ c # 124
      [] kind = "digits" -> c \in 48..57
      [] OTHER -> FALSE

\* the position after the longest run of characters of the class from i on
RECURSIVE RunEnd(_, _, _)
RunEnd(text, i, kind) ==
    IF i <= Len(text) /\ InClass(text[i], kind) THEN RunEnd(text, i + 1, kind)
    ELSE i

NoMatch == [ok |-> FALSE, caps |-> <<>>]

\* match of the pieces from the k-th on at position i
RECURSIVE MatchFrom(_, _, _, _)
MatchFrom(text, i, k, caps) ==
    IF k > Len(metadataPattern) THEN [ok |-> TRUE, caps |-> caps]
    ELSE IF metadataPattern[k].kind = "lit"
    THEN The({IF /\ j - 1 <= Len(text)
                 /\ ToLowerCase(SubSeq(text, i, j - 1)) = metadataPattern[k].lit
              THEN MatchFrom(text, j, k + 1, caps)
              ELSE NoMatch :
                j \in {i + Len(metadataPattern[k].lit)}})
    ELSE The({IF metadataPattern[k].kind = "ws" THEN MatchFrom(text, j, k + 1, caps)
              ELSE IF j = i THEN NoMatch
              ELSE The({MatchFrom(text, j, k + 1, c) :
                          c \in {Append(caps, SubSeq(text, i, j - 1))}}) :
                j \in {RunEnd(text, i, metadataPattern[k].kind)}})

\* String.prototype.match without the g flag: the leftmost match
RECURSIVE FirstMatch(_, _)
FirstMatch(text, i) ==
    IF i > Len(text) THEN NoMatch
    ELSE The({IF m.ok THEN m ELSE FirstMatch(text, i + 1) :
                m \in {MatchFrom(text, i, 1, <<>>)}})

parseCalendarMetadataFromDescription(description) ==
    IF description = <<>> THEN Null
    ELSE The({IF m.ok
              THEN [gcalId |-> m.caps[1], startTime |-> m.caps[2],
                    durationMin |-> ParseInt(m.caps[3])]
              ELSE Null :
                m \in {FirstMatch(description, 1)}})

\* event ids as the calendar hands them out
EventIdA ==
    <<101, 118, 49, 97>>

EventIdB ==
    <<101, 118, 49, 97, 95, 50, 48, 50, 53, 48, 55, 49, 57, 116, 48, 48,
      52, 53, 48, 48, 122>>

\* item.startTime: start.dateTime or start.date of an event
StartUtc ==
    <<50, 48, 50, 53, 45, 48, 55, 45, 49, 57, 84, 48, 48, 58, 52, 53, 58,
      48, 48, 46, 48, 48, 48, 90>>

StartOffset ==
    <<50, 48, 50, 53, 45, 48, 55, 45, 49, 57, 84, 49, 48, 58, 48, 48, 58,
      48, 48, 45, 48, 55, 58, 48, 48>>

StartDate ==
    <<50, 48, 50, 53, 45, 48, 55, 45, 49, 57>>

\* the notes of the event: none, plain text, text that starts with digits,
\* and notes that hold an older metadata line
NotesPlain ==
    <<65, 32, 116, 101, 115, 116, 32, 116, 97, 115, 107, 32, 102, 114, 111,
      109, 32, 71, 67, 97, 108>>

NotesDigits ==
    <<51, 48, 32, 124, 32, 109, 105, 110, 117, 116, 101, 115>>

NotesOldMetadata ==
    MetadataText(<<111, 108, 100>>, StartDate, 15) \o <<10, 10>> \o NotesPlain

\* item.durationMin: an event's minutes (0 when start = end), a day for an
\* all-day event
DurationChoices == {0, 5, 30, 1440}

\* in this specification hist holds the item's fields, the notes written and
\* the metadata parsed from them
InitMetadata ==
    /\ now = Now0
    /\ linearIssues = <<>>
    /\ gcalEvents = <<>>
    /\ nextLinearId = FirstNewId
    /\ nextGCalId = FirstNewId
    /\ uidCounter = 0
    /\ pc = "item"
    /\ items = <<>>
    /\ operations = <<>>
    /\ results = <<>>
    /\ passes = 0
    /\ failures = 0
    /\ hist \in {[gcalId |-> gcalId, startTime |-> startTime,
                   durationMin |-> durationMin, description |-> description,
                   written |-> <<>>, parsed |-> Null] :
                     gcalId \in {EventIdA, EventIdB},
                     startTime \in {StartUtc, StartOffset, StartDate},
                     durationMin \in DurationChoices,
                     description \in {<<>>, NotesPlain, NotesDigits, NotesOldMetadata}}

\* actuator.ts:132-138: createLinearIssue builds the description
WriteNotes ==
    /\ pc = "item"
    /\ hist' = [hist EXCEPT !.written =
                   DescriptionText(hist.gcalId, hist.startTime, hist.durationMin,
                                   hist.description)]
    /\ pc' = "written"
    /\ UNCHANGED <<now, linearIssues, gcalEvents, nextLinearId, nextGCalId,
                   uidCounter, items, operations, results, passes, failures>>

\* parseCalendarMetadataFromDescription(issue.description)
ParseNotes ==
    /\ pc = "written"
    /\ \E parsed \in {parseCalendarMetadataFromDescription(hist.written)} :
          hist' = [hist EXCEPT !.parsed = parsed]
    /\ pc' = "parsed"
    /\ UNCHANGED <<now, linearIssues, gcalEvents, nextLinearId, nextGCalId,
                   uidCounter, items, operations, results, passes, failures>>

NextMetadata ==
    \/ WriteNotes
    \/ ParseNotes

SpecMetadata == InitMetadata /\ [][NextMetadata]_vars

-----------------------------------------------------------------------------
(* The helpers of types.ts as pure functions: a duration, a point value, a   *)
(* size bucket, a title and two prefixes are drawn from bounded sets, one    *)
(* action applies the estimate helpers, one the prefix helpers               *)

MaxDuration == 250

\* point values an issue can carry; 0 stands for a missing estimate
PointChoices == {0, 1, 2, 3, 4, 5, 8, 13}

PrefixTable ==
    {PREFIX_TRIAGE, PREFIX_SCHEDULED, PREFIX_DONE, PREFIX_CANCELED,
     PREFIX_FAILED, PREFIX_WORKED}

\* "", "a", "a b", "a<U+202F>b", " a", "a " and "<DONE>a"
TypeTitles ==
    {<<>>, TitleA, <<97, 32, 98>>, <<97, NNBSP, 98>>, <<32, 97>>, <<97, 32>>,
     PREFIX_DONE \o TitleA}

TypeInput(kind, durationMin, points, estimate, title, prefix1, prefix2) ==
    [kind |-> kind, durationMin |-> durationMin, points |-> points,
     estimate |-> estimate, title |-> title, prefix1 |-> prefix1,
     prefix2 |-> prefix2, out |-> Null]

InitTypes ==
    /\ now = Now0
    /\ linearIssues = <<>>
    /\ gcalEvents = <<>>
    /\ nextLinearId = FirstNewId
    /\ nextGCalId = FirstNewId
    /\ uidCounter = 0
    /\ pc = "input"
    /\ items = <<>>
    /\ operations = <<>>
    /\ results = <<>>
    /\ passes = 0
    /\ failures = 0
    /\ hist \in
         {TypeInput("estimate", durationMin, points, estimate, <<>>,
                    PREFIX_TRIAGE, PREFIX_TRIAGE) :
            durationMin \in 0..MaxDuration, points \in PointChoices,
            estimate \in Estimates}
         \cup
         {TypeInput("title", 0, 0, "S", title, prefix1, prefix2) :
            title \in TypeTitles, prefix1 \in PrefixTable,
            prefix2 \in PrefixTable}

\* the four estimate helpers and their two round trips
ConvertEstimate ==
    /\ pc = "input"
    /\ hist.kind = "estimate"
    /\ hist' = [hist EXCEPT !.out =
          [byDuration |-> durationToEstimate(hist.durationMin),
           byPoints |-> pointsToEstimate(hist.points),
           minutes |-> estimateToDuration(hist.estimate),
           pointsOf |-> estimateToPoints(hist.estimate),
           viaMinutes |-> durationToEstimate(estimateToDuration(hist.estimate)),
           viaPoints |-> pointsToEstimate(estimateToPoints(hist.estimate))]]
    /\ pc' = "estimated"
    /\ UNCHANGED <<now, linearIssues, gcalEvents, nextLinearId, nextGCalId,
                   uidCounter, items, operations, results, passes, failures>>

\* stripPrefix and addPrefix on a title
ConvertTitle ==
    /\ pc = "input"
    /\ hist.kind = "title"
    /\ hist' = [hist EXCEPT !.out =
          [stripped |-> stripPrefix(hist.title),
           added |-> addPrefix(hist.title, hist.prefix1),
           addedStripped |-> stripPrefix(addPrefix(hist.title, hist.prefix1)),
           addedTwice |-> addPrefix(addPrefix(hist.title, hist.prefix1),
                                    hist.prefix2)]]
    /\ pc' = "retitled"
    /\ UNCHANGED <<now, linearIssues, gcalEvents, nextLinearId, nextGCalId,
                   uidCounter, items, operations, results, passes, failures>>

NextTypes ==
    \/ ConvertEstimate
    \/ ConvertTitle

SpecTypes == InitTypes /\ [][NextTypes]_vars

-----------------------------------------------------------------------------
(* diff as a pure function of items built by hand, as the tests of the diff  *)
(* engine build them: any phase with any combination of the two ids          *)

MaxItems == 2

\* the item at position k: uid k, ids k or undefined
DiffItemAt(k) ==
    {[uid |-> GenUid(k), title |-> TitleA, description |-> <<>>,
      startTime |-> NoTime, endTime |-> NoTime, durationMin |-> 30,
      estimate |-> "S", linearId |-> linearId, gcalId |-> gcalId,
      linearState |-> linearState, phase |-> phase, lastModified |-> Now0,
      currentGCalTitle |-> IF gcalId # 0 THEN TitleA ELSE <<>>,
      currentLinearTitle |-> IF linearId # 0 THEN TitleA ELSE <<>>] :
        phase \in Phases, linearId \in {0, k}, gcalId \in {0, k},
        linearState \in {"none", "Scheduled", "Done"}}

DiffItemLists ==
    UNION {{l \in [1..n -> UNION {DiffItemAt(k) : k \in 1..n}] :
                \A k \in 1..n : l[k].uid = GenUid(k)} : n \in 1..MaxItems}

InitDiff ==
    /\ now = Now0
    /\ linearIssues = <<>>
    /\ gcalEvents = <<>>
    /\ nextLinearId = FirstNewId
    /\ nextGCalId = FirstNewId
    /\ uidCounter = 0
    /\ pc = "input"
    /\ items \in DiffItemLists
    /\ operations = <<>>
    /\ results = <<>>
    /\ passes = 0
    /\ failures = 0
    /\ hist = Null

\* diff(items)
Diff ==
    /\ pc = "input"
    /\ operations' = diff(items)
    /\ pc' = "diffed"
    /\ UNCHANGED <<now, linearIssues, gcalEvents, nextLinearId, nextGCalId,
                   uidCounter, items, results, passes, failures, hist>>

NextDiff == Diff

SpecDiff == InitDiff /\ [][NextDiff]_vars

-----------------------------------------------------------------------------
(* Actuator.execute called with one operation built by hand: any type of     *)
(* the union OperationType on any such item, beside an overdue pair          *)

OperationTypes ==
    {"createLinearIssue", "createGCalEvent", "patchGCalEvent", "patchLinearIssue",
     "copyEventToHistory", "createRescheduledEvent",
     "createLinearIssueAndUpdateGCal", "createGCalEventAndUpdateLinear", "noop"}

\* in this specification hist also holds config.gcalHistoryCalendarId, 0 when
\* no history calendar is configured
InitExecute ==
    /\ now = Now0
    /\ linearIssues = <<LinearIssue(1, TitleA, <<>>, "Scheduled", NoTime, 0)>>
    /\ gcalEvents = <<GCalEvent(1, TitleA, <<>>, DateTime(Now0 - Hours(31)),
                                DateTime(Now0 - Hours(30)), ExtUid(1), 1)>>
    /\ nextLinearId = FirstNewId
    /\ nextGCalId = FirstNewId
    /\ uidCounter = 0
    /\ pc = "executing"
    /\ items \in {<<item>> : item \in DiffItemAt(1)}
    /\ operations \in {<<Operation(type, items[1], "built by hand")>> :
                          type \in OperationTypes}
    /\ results = <<>>
    /\ passes = 0
    /\ failures = 0
    /\ hist \in {[gcalHistoryCalendarId |-> id] @@ NoHist : id \in {0, 1}}

NextExecute == ExecuteOperation("none")

SpecExecute == InitExecute /\ [][NextExecute]_vars

-----------------------------------------------------------------------------
(* Properties checked under Spec (the passes of the worker) *)

\* C1. Idempotence of a pass: when the pass before completed with every
\* operation a success and no client call throwing, the next pass over the
\* resulting external state (same now, no external edit) emits no operation.
C1_SecondPassEmitsNothing ==
    (pc = "executing" /\ hist.cleanPasses >= 1) => operations = <<>>

\* C3. Per-operation failure isolation: the results are one per operation
\* executed, in operation order; the result of an operation that threw has
\* success = false, result = null and error = the thrown message; and when
\* execute has returned there is one result for every operation of the pass,
\* those after a failed one included.
C3_FailureIsolated ==
    /\ Len(results) <= Len(operations)
    /\ \A k \in 1..Len(results) :
          /\ results[k].operation = operations[k]
          /\ results[k].success => results[k].error = "null"
    /\ \A r \in hist.thrownAt :
          /\ r.index <= Len(results)
          /\ results[r.index].success = FALSE
          /\ results[r.index].result = Null
          /\ results[r.index].error = r.message
    /\ pc = "idle" => Len(results) = Len(operations)

\* a pass has returned whose first operation threw and whose second ran
C3_Witness ==
    /\ pc = "idle"
    /\ Len(results) = 2
    /\ \E r \in hist.thrownAt : r.index = 1
    /\ results[1].success = FALSE
    /\ results[1].result = Null
    /\ results[2].success = TRUE

\* C6. uid stability across passes: when no pass so far had a failure, every
\* item of the current pass that has a calendar event carries the uid that
\* was assigned to that event in the first pass that observed it.
C6_UidStable ==
    (pc = "executing" /\ hist.cleanPasses = passes) =>
        \A i \in 1..Len(items) : \A r \in hist.firstUid :
            (items[i].gcalId # 0 /\ r.id = items[i].gcalId) => items[i].uid = r.uid

\* two items, of consecutive passes, that contain the same event or issue
SameEntity(a, b) ==
    \/ a.gcalId # 0 /\ a.gcalId = b.gcalId
    \/ a.linearId # 0 /\ a.linearId = b.linearId

\* C8. Transition legality across passes: when the pass before completed
\* without failure (and nothing was edited externally), an item of this pass
\* whose phase differs from the phase the same event or issue had in the
\* pass before made a transition that validateTransition accepts.
C8_TransitionsLegal ==
    (pc = "executing" /\ hist.cleanPasses >= 1) =>
        \A i \in 1..Len(hist.prevItems) : \A j \in 1..Len(items) :
            (/\ SameEntity(hist.prevItems[i], items[j])
             /\ hist.prevItems[i].phase # items[j].phase)
            => validateTransition(hist.prevItems[i].phase, items[j].phase)

\* C9. Overdue items get rescheduled: when a pass has completed without
\* failure, the event of every item it classified overdue ends after now,
\* still carries the item's uid and issue link, and is classified active
\* together with its issue.
C9_OverdueRescheduled ==
    (pc = "idle" /\ hist.cleanPasses >= 1) =>
        \A i \in 1..Len(items) :
            (items[i].phase = "overdue" /\ items[i].gcalId # 0) =>
                LET event == FindById(gcalEvents, items[i].gcalId, NoEvent)
                    issue == FindById(linearIssues, items[i].linearId, NoIssue)
                IN /\ event.end.t > now
                   /\ event.uid = items[i].uid
                   /\ event.linearIssueId = items[i].linearId
                   /\ classifyPhase(issue, event, event.end, now) = "active"

\* C10. Self-healing link: once two passes in a row have completed without
\* failure after the linking call of a composite operation threw, the entity
\* the operation created and its counterpart are paired in one item.
C10_LinkHeals ==
    (pc = "idle" /\ hist.cleanPasses >= 2) =>
        \A r \in hist.unlinked : \E i \in 1..Len(items) :
            items[i].linearId = r.linearId /\ items[i].gcalId = r.gcalId

-----------------------------------------------------------------------------
(* Properties checked under SpecProject (project and diff as functions) *)

\* C2. Pairing exclusivity: no two items of one projection have the same
\* linearId and no two have the same gcalId, also when an event's link and
\* an issue's metadata name different partners.
C2_PairingExclusive ==
    pc # "input" =>
        \A i, j \in 1..Len(items) :
            i # j =>
                /\ items[i].linearId # 0 => items[i].linearId # items[j].linearId
                /\ items[i].gcalId # 0 => items[i].gcalId # items[j].gcalId

\* a projection of inputs in which an event names one issue while the
\* metadata of another issue names that event
C2_Witness ==
    /\ pc = "projected"
    /\ Len(items) >= 2
    /\ \E e \in Range(gcalEvents) : \E i \in Range(linearIssues) :
          /\ e.linearIssueId # 0
          /\ e.linearIssueId # i.id
          /\ FindById(linearIssues, e.linearIssueId, NoIssue) # NoIssue
          /\ \E m \in Range(parseAllCalendarMetadataFromDescription(i.description)) :
                m.gcalId = e.id

\* the phase the priority order gives an item: "more than 24h ago" is an end
\* time more than 24 * 60 minutes before now
PhaseByPriorityOrder(item, t) ==
    IF item.gcalId # 0 /\ item.linearId = 0 THEN "eventOnly"
    ELSE IF item.linearId # 0 /\ item.gcalId = 0 THEN "linearOnly"
    ELSE IF item.linearState \in {"Done", "Canceled", "Failed"} THEN "completed"
    ELSE IF HasTime(item.endTime) /\ t - item.endTime.t > Hours(24) THEN "overdue"
    ELSE "active"

\* C4. Phase coverage: every item of a projection has exactly the phase the
\* priority order gives it: event only -> eventOnly; issue only ->
\* linearOnly; both and Done/Canceled/Failed -> completed; both and the event
\* ended more than 24h ago -> overdue; otherwise active.
C4_PhaseFollowsPriorityOrder ==
    pc # "input" =>
        \A i \in 1..Len(items) :
            /\ items[i].phase \in Phases
            /\ items[i].phase = PhaseByPriorityOrder(items[i], now)

\* C5. Determinism: project followed by diff, run twice on the same inputs
\* with the same now, gives the same items and the same operations.
C5_Deterministic ==
    pc = "reprojected" =>
        /\ items = hist.prevItems
        /\ operations = hist.prevOperations

\* C7. uid uniqueness within a pass: the items of one projection have
\* pairwise distinct uids, whatever uids the events carry.
C7_UidsDistinct ==
    pc # "input" =>
        \A i, j \in 1..Len(items) : i # j => items[i].uid # items[j].uid

-----------------------------------------------------------------------------
(* Further properties checked under Spec *)

CompositeTypes == {"createLinearIssueAndUpdateGCal", "createGCalEventAndUpdateLinear"}

\* C11. Composite operations tolerate a secondary failure: in every turn of
\* the loop that executes createLinearIssueAndUpdateGCal or
\* createGCalEventAndUpdateLinear, when the create call succeeds and the
\* update call throws, the result pushed has success = true, error = null
\* and result = the entity just created; when the create call throws, the
\* result has success = false and no update is made (both systems are left
\* as they were).
C11_SecondaryFailureTolerated ==
    [][\A k \in {Len(results')} :
          (/\ Len(results') = Len(results) + 1
           /\ results'[k].operation.type \in CompositeTypes) =>
             /\ hist'.calls[k] = "secondary" =>
                   /\ results'[k].success = TRUE
                   /\ results'[k].error = "null"
                   /\ IF results'[k].operation.type = "createLinearIssueAndUpdateGCal"
                      THEN /\ results'[k].result.id = nextLinearId
                           /\ results'[k].result =
                                 FindById(linearIssues', nextLinearId, NoIssue)
                           /\ FindById(linearIssues, nextLinearId, NoIssue) = NoIssue
                      ELSE /\ results'[k].result.id = nextGCalId
                           /\ results'[k].result =
                                 FindById(gcalEvents', nextGCalId, NoEvent)
                           /\ FindById(gcalEvents, nextGCalId, NoEvent) = NoEvent
             /\ hist'.calls[k] = "primary" =>
                   /\ results'[k].success = FALSE
                   /\ linearIssues' = linearIssues
                   /\ gcalEvents' = gcalEvents]_vars

\* a composite operation of each kind has created its entity while its
\* update call threw
C11_Witness ==
    \E k \in 1..Len(results) :
        /\ k <= Len(hist.calls)
        /\ hist.calls[k] = "secondary"
        /\ results[k].operation.type = "createLinearIssueAndUpdateGCal"
        /\ results[k].success

OfType(ops, type) == {k \in 1..Len(ops) : ops[k].type = type}

\* C14. The eventOnly rule: for every item with phase eventOnly diff emits
\* exactly one operation, a createLinearIssueAndUpdateGCal whose item has
\* linearState Triage and a title that starts with the Triage prefix; and a
\* successful execution of it adds exactly one issue, in state Triage, with
\* that prefixed title.
C14_EventOnlyRule ==
    [][/\ \A i \in 1..Len(items') :
             items'[i].phase = "eventOnly" =>
                \A ops \in {generateOperationsForItem(items'[i])} :
                    /\ Len(ops) = 1
                    /\ ops[1].type = "createLinearIssueAndUpdateGCal"
                    /\ ops[1].item.linearState = "Triage"
                    /\ ops[1].item.title = PREFIX_TRIAGE \o items'[i].title
                    /\ ops[1].item.gcalId = items'[i].gcalId
       /\ Cardinality(OfType(operations', "createLinearIssueAndUpdateGCal")) =
             Cardinality({i \in 1..Len(items') : items'[i].phase = "eventOnly"})
       /\ \A k \in {Len(results')} :
             (/\ Len(results') = Len(results) + 1
              /\ results'[k].operation.type = "createLinearIssueAndUpdateGCal"
              /\ results'[k].success) =>
                /\ Len(linearIssues') = Len(linearIssues) + 1
                /\ \A j \in 1..Len(linearIssues) :
                      linearIssues'[j] = linearIssues[j]
                /\ linearIssues'[Len(linearIssues')].state = "Triage"
                /\ linearIssues'[Len(linearIssues')].title =
                      results'[k].operation.item.title
                /\ linearIssues'[Len(linearIssues')].title[1] = TRIAGE_G]_vars

\* the operation emitted for an event whose title carries the Done glyph has
\* been executed and has created its issue
C14_Witness ==
    \E k \in 1..Len(results) :
        /\ results[k].operation.type = "createLinearIssueAndUpdateGCal"
        /\ results[k].operation.item.currentGCalTitle = PREFIX_DONE \o TitleA
        /\ results[k].success
        /\ results[k].result.state = "Triage"
        /\ results[k].result.title = PREFIX_TRIAGE \o TitleA

\* the number of lines of the notes that are of one of the kinds
CountLines(description, kinds) ==
    Cardinality({i \in 1..Len(description) : description[i].k \in kinds})

\* C22. No accumulation of cross-references: after any sequence of passes
\* the notes of every issue hold at most one calendar-sync line and the
\* notes of every event hold at most one "Linear issue:" line (the notes a
\* run starts from hold at most one, so any further one was written by the
\* Actuator).
C22_NoAccumulation ==
    /\ \A i \in 1..Len(linearIssues) :
          CountLines(linearIssues[i].description, {"meta"}) <= 1
    /\ \A i \in 1..Len(gcalEvents) :
          CountLines(gcalEvents[i].description, {"link", "url"}) <= 1

\* the issues the Actuator has created for the event with this id: createLinearIssue
\* writes the id of the event into the calendar-sync line of the new issue
IssuesCreatedFor(gcalId) ==
    {linearIssues[i].id : i \in {j \in 1..Len(linearIssues) :
        /\ linearIssues[j].id >= FirstNewId
        /\ \E n \in 1..Len(linearIssues[j].description) :
              /\ linearIssues[j].description[n].k = "meta"
              /\ linearIssues[j].description[n].id = gcalId}}

\* C35. No duplicate issues: across any sequence of passes with no external
\* edits, passes in which the secondary patch of the event by
\* createLinearIssueAndUpdateGCal fails included, at most one issue is ever
\* created for a given calendar event.
C35_NoDuplicateIssues ==
    \A i \in 1..Len(gcalEvents) :
        Cardinality(IssuesCreatedFor(gcalEvents[i].id)) <= 1

\* the events the Actuator has created for the issue with this id: createGCalEvent
\* writes the id of the issue into the private properties of the new event
EventsCreatedFor(linearId) ==
    {gcalEvents[i].id : i \in {j \in 1..Len(gcalEvents) :
        /\ gcalEvents[j].id >= FirstNewId
        /\ gcalEvents[j].linearIssueId = linearId}}

\* C36. No duplicate events: across any sequence of passes with no external
\* edits, at most one calendar event is ever created for a given Scheduled
\* issue, whatever target date the issue carries and whatever slot the
\* scheduler returns, each pass observing only the events between 2 days
\* before and 14 days after now.
C36_NoDuplicateEvents ==
    \A i \in 1..Len(linearIssues) :
        linearIssues[i].state = "Scheduled" =>
            Cardinality(EventsCreatedFor(linearIssues[i].id)) <= 1

\* C37. Quiescence: with now fixed, nothing edited from outside and no client
\* failure, repeated passes reach a pass that emits no operation, and every
\* pass after such a pass emits none either. Stated on a finite run: the pass
\* after one that emitted nothing emits nothing, and a pass that has left
\* both systems as it found them has emitted nothing (the pass after it
\* finds what this one found, and so does every later one, so that none of
\* them would be the first to emit nothing).
C37_Quiescence ==
    failures = 0 =>
        /\ (/\ pc = "executing"
            /\ passes >= 1
            /\ hist.returned.operationsExecuted = <<>>) => operations = <<>>
        /\ (/\ pc = "idle"
            /\ passes >= 1
            /\ linearIssues = hist.atSync.issues
            /\ gcalEvents = hist.atSync.events) => operations = <<>>

-----------------------------------------------------------------------------
(* Properties checked under SpecRetry *)

\* C23. Operations are idempotent: executing the same Operation value a
\* second time leaves the issues and the events, with all their fields, as
\* the first execution left them.
C23_OperationsIdempotent ==
    pc = "retried" =>
        /\ linearIssues = hist.afterFirst.issues
        /\ gcalEvents = hist.afterFirst.events

-----------------------------------------------------------------------------
(* Further properties checked under SpecProject *)

\* the glyph of a terminal state
TerminalGlyph(state) ==
    CASE state = "Done" -> DONE_G
      [] state = "Canceled" -> CANCELED_G
      [] state = "Failed" -> FAILED_G

\* C13. Completed items: for a completed item with an event, diff emits no
\* operation when the current title of the event already starts with the
\* glyph of the issue's terminal state, and otherwise exactly one
\* patchGCalEvent whose title is that glyph before the clean title.
C13_CompletedPatchedUnlessGlyph ==
    pc # "input" =>
        \A i \in 1..Len(items) :
            (items[i].phase = "completed" /\ items[i].gcalId # 0) =>
                \A ops \in {generateOperationsForItem(items[i])} :
                    IF /\ items[i].currentGCalTitle # <<>>
                       /\ items[i].currentGCalTitle[1] = TerminalGlyph(items[i].linearState)
                    THEN ops = <<>>
                    ELSE /\ Len(ops) = 1
                         /\ ops[1].type = "patchGCalEvent"
                         /\ ops[1].item.title =
                               <<TerminalGlyph(items[i].linearState), NNBSP>>
                                   \o items[i].title

\* the operation types whose execution creates a calendar event
EventCreatingTypes ==
    {"createGCalEvent", "createGCalEventAndUpdateLinear", "createRescheduledEvent"}

\* C15. The issueOnly rule: for an item with phase linearOnly diff emits
\* exactly one createGCalEventAndUpdateLinear when the state is Scheduled and
\* nothing when it is Triage, Done, Canceled or Failed; so every operation of
\* a pass that creates a calendar event is for an issue in state Scheduled.
C15_LinearOnlyRule ==
    pc # "input" =>
        /\ \A i \in 1..Len(items) :
              items[i].phase = "linearOnly" =>
                 \A ops \in {generateOperationsForItem(items[i])} :
                     IF items[i].linearState = "Scheduled"
                     THEN /\ Len(ops) = 1
                          /\ ops[1].type = "createGCalEventAndUpdateLinear"
                          /\ ops[1].item.linearId = items[i].linearId
                     ELSE ops = <<>>
        /\ \A k \in 1..Len(operations) :
              operations[k].type \in EventCreatingTypes =>
                 /\ operations[k].item.linearId # 0
                 /\ FindById(linearIssues, operations[k].item.linearId,
                             NoIssue).state = "Scheduled"

\* one projection holds an issue without event in a terminal state, for which
\* nothing is emitted
C15_Witness ==
    /\ pc = "projected"
    /\ \E i \in 1..Len(items) :
          /\ items[i].phase = "linearOnly"
          /\ items[i].linearState \in {"Triage", "Done", "Canceled", "Failed"}
    /\ operations = <<>>

\* C16. The overdue rule as the specification states it: for an overdue item
\* with an event diff emits exactly two operations, first copyEventToHistory
\* with the worked-on prefix before the title, then patchGCalEvent for the
\* original event; both carry the uid, linearId and gcalId of the item.
C16_OverdueCopiesThenPatches ==
    pc # "input" =>
        \A i \in 1..Len(items) :
            (items[i].phase = "overdue" /\ items[i].gcalId # 0) =>
                \A ops \in {generateOperationsForItem(items[i])} :
                    /\ Len(ops) = 2
                    /\ ops[1].type = "copyEventToHistory"
                    /\ ops[1].item.title = PREFIX_WORKED \o items[i].title
                    /\ ops[2].type = "patchGCalEvent"
                    /\ \A k \in 1..2 :
                          /\ ops[k].item.uid = items[i].uid
                          /\ ops[k].item.linearId = items[i].linearId
                          /\ ops[k].item.gcalId = items[i].gcalId

\* C17. The overdue rule as the test of diff and the README state it: for an
\* overdue item with an event diff emits exactly two operations, first
\* patchGCalEvent with the reason "Marking original event as worked on",
\* then createRescheduledEvent with the reason "Creating new event to
\* continue tracking overdue item".
C17_OverdueMarksThenRecreates ==
    pc # "input" =>
        \A i \in 1..Len(items) :
            (items[i].phase = "overdue" /\ items[i].gcalId # 0) =>
                \A ops \in {generateOperationsForItem(items[i])} :
                    /\ Len(ops) = 2
                    /\ ops[1].type = "patchGCalEvent"
                    /\ ops[1].reason = "Marking original event as worked on"
                    /\ ops[2].type = "createRescheduledEvent"
                    /\ ops[2].reason =
                          "Creating new event to continue tracking overdue item"

\* C24. The overdue threshold: a linked pair whose issue is not Done,
\* Canceled or Failed has phase overdue exactly when the event ended more
\* than 24 hours (24 * 60 minutes) before now, and phase active when it
\* ended 24 hours ago or less, or ends in the future.
C24_OverdueThreshold ==
    pc # "input" =>
        \A i \in 1..Len(items) :
            (/\ items[i].linearId # 0
             /\ items[i].gcalId # 0
             /\ items[i].linearState \notin {"Done", "Canceled", "Failed"}
             /\ HasTime(items[i].endTime)) =>
                IF now - items[i].endTime.t > Hours(24)
                THEN items[i].phase = "overdue"
                ELSE items[i].phase = "active"

\* the issues an event names: in its private bag, by a link in its notes
NamedIssues(e) ==
    {e.linearIssueId, parseLinearLinkFromDescription(e.description)} \ {0}

\* the events the embedded metadata of an issue names
NamedEvents(i) ==
    {m.gcalId : m \in Range(parseAllCalendarMetadataFromDescription(i.description))}

\* the private bag of e1 names i, the metadata of i names another event e2
LinksDisagree(i, e1, e2) ==
    /\ e1.linearIssueId = i.id
    /\ e2.id # e1.id
    /\ e2.id \in NamedEvents(i)

\* i is paired with e1 in one item, e2 is an eventOnly item of its own
PairedAndLeftOver(i, e1, e2) ==
    /\ \E k \in 1..Len(items) :
          /\ items[k].linearId = i.id
          /\ items[k].gcalId = e1.id
          /\ \A j \in 1..Len(items) : items[j].linearId = i.id => j = k
    /\ \E k \in 1..Len(items) :
          /\ items[k].gcalId = e2.id
          /\ items[k].linearId = 0
          /\ items[k].phase = "eventOnly"

\* C27. Calendar-side link wins: when the private bag of an event E1 names
\* issue I and the embedded metadata of I names a different existing event
\* E2, and these are the only links among them (no other event names I, the
\* notes of E1 link no other issue, E2 names no issue of the snapshot, no
\* other issue's metadata names E2), project pairs I with E1 in one item and
\* E2 becomes an eventOnly item of its own.
C27_CalendarLinkWins ==
    pc # "input" =>
        \A i \in Range(linearIssues) :
          \A e1 \in Range(gcalEvents) : \A e2 \in Range(gcalEvents) :
            (/\ LinksDisagree(i, e1, e2)
             /\ NamedIssues(e1) = {i.id}
             /\ \A e \in Range(gcalEvents) : e.id # e1.id => i.id \notin NamedIssues(e)
             /\ \A j \in Range(linearIssues) : j.id \notin NamedIssues(e2)
             /\ \A j \in Range(linearIssues) : j.id # i.id => e2.id \notin NamedEvents(j))
                => PairedAndLeftOver(i, e1, e2)

\* issue 1 names event 2 in its metadata, event 1 names issue 1 in its bag,
\* event 2 names nobody: one pair and one event of its own
C27_Witness ==
    /\ pc = "projected"
    /\ \E i \in Range(linearIssues) :
         \E e1 \in Range(gcalEvents) : \E e2 \in Range(gcalEvents) :
            /\ LinksDisagree(i, e1, e2)
            /\ NamedIssues(e1) = {i.id}
            /\ NamedIssues(e2) = {}
            /\ PairedAndLeftOver(i, e1, e2)

\* C27 as stated, whatever else E1, E2 and the other entities name
C27_CalendarLinkWinsAsStated ==
    pc # "input" =>
        \A i \in Range(linearIssues) :
          \A e1 \in Range(gcalEvents) : \A e2 \in Range(gcalEvents) :
            LinksDisagree(i, e1, e2) => PairedAndLeftOver(i, e1, e2)

\* the ids of the events of the snapshot
SnapshotEventIds == {e.id : e \in Range(gcalEvents)}

\* every line of metadata in the notes of i names an event that is not in the
\* snapshot, and no event names i
StaleMetadata(i) ==
    /\ NamedEvents(i) # {}
    /\ NamedEvents(i) \cap SnapshotEventIds = {}
    /\ \A e \in Range(gcalEvents) : i.id \notin NamedIssues(e)

C29_CompleteConsumption ==
    pc = "projected" =>
        /\ \A i \in Range(linearIssues) :
              Cardinality({k \in 1..Len(items) : items[k].linearId = i.id}) = 1
        /\ \A e \in Range(gcalEvents) :
              Cardinality({k \in 1..Len(items) : items[k].gcalId = e.id}) = 1
        /\ \A k \in 1..Len(items) : items[k].linearId # 0 \/ items[k].gcalId # 0
        /\ hist.orphanedLinearIssues = <<>>
        /\ hist.orphanedGCalEvents = <<>>

\* two issues and two events, one pair made by the calendar side, one issue
\* and one event left on their own
C29_Witness ==
    /\ pc = "projected"
    /\ Len(linearIssues) = 2
    /\ Len(gcalEvents) = 2
    /\ Len(items) = 3
    /\ \E k \in 1..Len(items) : items[k].linearId # 0 /\ items[k].gcalId # 0
    /\ \E k \in 1..Len(items) : items[k].phase = "linearOnly"
    /\ \E k \in 1..Len(items) : items[k].phase = "eventOnly"
    /\ hist.orphanedGCalEvents = <<>>

\* a title without the glyph of the prefix table, and the narrow space after
\* it, that it starts with
WithoutStatusGlyph(title) ==
    IF \E prefix \in PrefixTable :
          Len(title) >= 2 /\ SubSeq(title, 1, 2) = prefix
    THEN SubSeq(title, 3, Len(title))
    ELSE title

C39_PhaseAgreesWithBackReferences ==
    pc # "input" =>
        /\ \A i \in 1..Len(items) :
              /\ items[i].phase = "eventOnly" <=>
                    (items[i].gcalId # 0 /\ items[i].linearId = 0)
              /\ items[i].phase = "linearOnly" <=>
                    (items[i].linearId # 0 /\ items[i].gcalId = 0)
              /\ items[i].phase \in {"active", "completed", "overdue"} <=>
                    (items[i].linearId # 0 /\ items[i].gcalId # 0)
        /\ \A k \in 1..Len(operations) :
              operations[k].item.phase = "active" =>
                  operations[k].type \notin {"createGCalEvent", "createLinearIssue"}

\* one projection with an active pair, an event without issue and an issue
\* without event
C39_Witness ==
    /\ pc = "projected"
    /\ \E i \in 1..Len(items) :
          items[i].phase = "active" /\ items[i].linearId # 0 /\ items[i].gcalId # 0
    /\ \E i \in 1..Len(items) :
          items[i].phase = "eventOnly" /\ items[i].linearId = 0
    /\ \E i \in 1..Len(items) :
          items[i].phase = "linearOnly" /\ items[i].gcalId = 0

-----------------------------------------------------------------------------
(* Properties checked under SpecScheduler *)

\* the slot the search falls back to: start of working hours on the day that
\* ends the search period
FallbackSlot(estimate, preferredDate, t) ==
    LET startSearchDate == IF HasTime(preferredDate) /\ preferredDate.t > t
                           THEN preferredDate.t
                           ELSE t + Days(1)
        fallbackStart == StartOfDay(startSearchDate + Days(SearchDays))
                             + Hours(startHour)
    IN TimeSlot(fallbackStart, fallbackStart + estimateToDuration(estimate))

\* C18. Buffer and non-overlap: a slot returned by findNextAvailableSlot that
\* is not the fallback overlaps no existing event, starts at least
\* BUFFER_MINUTES after the end of every existing event that ends before it
\* on its day, and ends at least BUFFER_MINUTES before the start of every
\* existing event that starts after it on its day, also when existing
\* events overlap or are nested.
C18_SlotKeepsBuffer ==
    (pc = "scheduled"
        /\ hist.slot # FallbackSlot(hist.estimate, hist.preferredDate, now)) =>
        \A k \in 1..Len(gcalEvents) :
            /\ ~(/\ hist.slot.startTime.t < gcalEvents[k].end.t
                 /\ hist.slot.endTime.t > gcalEvents[k].start.t)
            /\ (/\ gcalEvents[k].end.t <= hist.slot.startTime.t
                /\ StartOfDay(gcalEvents[k].end.t) = StartOfDay(hist.slot.startTime.t))
                  => hist.slot.startTime.t - gcalEvents[k].end.t >= BUFFER_MINUTES
            /\ (/\ gcalEvents[k].start.t >= hist.slot.endTime.t
                /\ StartOfDay(gcalEvents[k].start.t) = StartOfDay(hist.slot.endTime.t))
                  => gcalEvents[k].start.t - hist.slot.endTime.t >= BUFFER_MINUTES

\* the working days the search of a request looks at
SearchedDays(preferredDate, t) ==
    LET startSearchDate == IF HasTime(preferredDate) /\ preferredDate.t > t
                           THEN preferredDate.t
                           ELSE t + Days(1)
    IN {d \in {StartOfDay(startSearchDate) + Days(k) : k \in 0..SearchDays} :
          d < startSearchDate + Days(SearchDays) /\ DayOfWeek(d) \in workingDays}

\* C19. The scheduler never fails: for every duration bucket, preferred date
\* (or none) and list of existing events, findNextAvailableSlot returns a
\* slot with a start and an end whose length is the duration of the bucket;
\* when no day of the search yields a fit, the slot is the fallback at the
\* start of working hours on the day that ends the search period, whatever
\* events it conflicts with.
C19_SchedulerAlwaysReturns ==
    pc = "scheduled" =>
        /\ hist.slot.startTime.kind = "dateTime"
        /\ hist.slot.endTime.kind = "dateTime"
        /\ hist.slot.endTime.t - hist.slot.startTime.t =
              estimateToDuration(hist.estimate)
        /\ (\A d \in SearchedDays(hist.preferredDate, now) :
                findSlotOnDate(d, estimateToDuration(hist.estimate),
                               gcalEvents, now) = NoSlot)
              => hist.slot = FallbackSlot(hist.estimate, hist.preferredDate, now)

\* the fallback has been returned although an existing event covers it
C19_Witness ==
    /\ pc = "scheduled"
    /\ hist.slot = FallbackSlot(hist.estimate, hist.preferredDate, now)
    /\ hist.estimate = "XL"
    /\ \E k \in 1..Len(gcalEvents) :
          /\ gcalEvents[k].start.t < hist.slot.startTime.t
          /\ gcalEvents[k].end.t > hist.slot.endTime.t

\* a slot of durationMin minutes starting at s lies inside the range and
\* keeps BUFFER_MINUTES to every event
FitsAt(s, durationMin, rangeEnd, events) ==
    /\ s + durationMin <= rangeEnd
    /\ \A k \in 1..Len(events) :
          \/ events[k].end.t + BUFFER_MINUTES <= s
          \/ s + durationMin + BUFFER_MINUTES <= events[k].start.t

\* C20. Preferred window first: on the day of the slot it returns, the
\* scheduler places the slot inside the preferred hours (10:00-16:00,
\* clipped to the working hours) whenever a slot of the duration fits there,
\* and elsewhere in the working hours only when none fits there; with no
\* existing event the slot starts at 10:00.
C20_PreferredWindowFirst ==
    (pc = "scheduled"
        /\ hist.slot # FallbackSlot(hist.estimate, hist.preferredDate, now)) =>
        \A day \in {StartOfDay(hist.slot.startTime.t)} :
        \A preferredDayStart \in {day + Hours(Max(10, startHour))} :
        \A preferredDayEnd \in {day + Hours(Min(16, endHour))} :
            /\ (\E s \in preferredDayStart..preferredDayEnd :
                    FitsAt(s, estimateToDuration(hist.estimate), preferredDayEnd,
                           gcalEvents))
                  => /\ hist.slot.startTime.t >= preferredDayStart
                     /\ hist.slot.endTime.t <= preferredDayEnd
            /\ gcalEvents = <<>> => hist.slot.startTime.t = day + Hours(10)

\* the day the search of a request starts on
FirstSearchDay(preferredDate, t) ==
    StartOfDay(IF HasTime(preferredDate) /\ preferredDate.t > t
               THEN preferredDate.t
               ELSE t + Days(1))

\* C33. Search horizon: the scheduler tries the days in increasing order from
\* max(preferredDate, tomorrow), returns the slot of the first working day
\* that yields a fit, and tries at most SearchDays calendar days; the day of
\* the fallback, the one after them, is never searched for a fit.
C33_SearchHorizon ==
    pc = "scheduled" =>
        \A first \in {FirstSearchDay(hist.preferredDate, now)} :
        \A tried \in {{first + Days(k) : k \in 0..(SearchDays - 1)}} :
        \A fits \in {{d \in tried :
                        /\ DayOfWeek(d) \in workingDays
                        /\ findSlotOnDate(d, estimateToDuration(hist.estimate),
                                          gcalEvents, now) # NoSlot}} :
            IF fits = {}
            THEN hist.slot = FallbackSlot(hist.estimate, hist.preferredDate, now)
            ELSE \E d \in fits :
                    /\ \A other \in fits : d <= other
                    /\ hist.slot = findSlotOnDate(d, estimateToDuration(hist.estimate),
                                                  gcalEvents, now)

-----------------------------------------------------------------------------
(* Properties checked under SpecWorkingHours *)

\* C32. Slot stays inside working hours: every slot findNextAvailableSlot
\* returns, other than the fallback, lies on a configured working day, starts
\* at or after the start of working hours and ends at or before their end,
\* for every duration bucket and every configuration of the working hours,
\* days without existing events included.
C32_SlotInsideWorkingHours ==
    (pc = "scheduled"
        /\ hist.slot # FallbackSlot(hist.estimate, hist.preferredDate, now)) =>
        \A day \in {StartOfDay(hist.slot.startTime.t)} :
            /\ DayOfWeek(day) \in workingDays
            /\ hist.slot.startTime.t >= day + Hours(startHour)
            /\ hist.slot.endTime.t <= day + Hours(endHour)

-----------------------------------------------------------------------------
(* Properties checked under SpecMetadata *)

\* C21. Metadata round trip: when the Actuator embeds (event id, start,
\* duration) in the notes of an issue, parseCalendarMetadataFromDescription
\* applied to the notes written returns exactly that event id, start and
\* duration, also when notes follow the line.
C21_MetadataRoundTrip ==
    (/\ pc = "parsed"
     /\ hist.durationMin # 0) =>
        hist.parsed = [gcalId |-> hist.gcalId, startTime |-> hist.startTime,
                       durationMin |-> hist.durationMin]

\* the notes written hold the new line before notes with an older line, and
\* the new values have been parsed back
C21_Witness ==
    /\ pc = "parsed"
    /\ hist.description = NotesOldMetadata
    /\ hist.durationMin = 1440
    /\ Len(hist.written) > Len(hist.description)
    /\ hist.parsed # Null
    /\ hist.parsed.gcalId = EventIdB

-----------------------------------------------------------------------------
(* Properties checked under SpecTypes *)

\* C25. Size bucket tables: durationToEstimate gives XS up to 22 minutes, S
\* above 22 up to 45, M above 45 up to 90, L above 90 up to 180 and XL above
\* 180; estimateToDuration and estimateToPoints look XS, S, M, L, XL up as 15,
\* 30, 60, 120, 240 minutes and 1, 2, 3, 5, 8 points; pointsToEstimate inverts
\* the points table and gives S for every other or missing point value; so
\* both round trips from a bucket give the bucket back.
C25_SizeBucketTables ==
    pc = "estimated" =>
        LET d == hist.durationMin
            p == hist.points
            b == hist.estimate
            BucketRank == <<"XS", "S", "M", "L", "XL">>
            Minutes == <<15, 30, 60, 120, 240>>
            Points == <<1, 2, 3, 5, 8>>
            UpTo == <<22, 45, 90, 180>>
            r == CHOOSE k \in 1..5 : BucketRank[k] = b
        IN /\ \A k \in 1..5 :
                 hist.out.byDuration = BucketRank[k] <=>
                     /\ (k > 1 => d > UpTo[k - 1])
                     /\ (k < 5 => d <= UpTo[k])
           /\ hist.out.minutes = Minutes[r]
           /\ hist.out.pointsOf = Points[r]
           /\ \A k \in 1..5 : p = Points[k] => hist.out.byPoints = BucketRank[k]
           /\ (\A k \in 1..5 : p # Points[k]) => hist.out.byPoints = "S"
           /\ hist.out.viaMinutes = b
           /\ hist.out.viaPoints = b

\* a duration on a bucket limit, a point value outside the table, bucket XL
C25_Witness ==
    /\ pc = "estimated"
    /\ hist.durationMin = 45
    /\ hist.points = 13
    /\ hist.estimate = "XL"
    /\ hist.out.byDuration = "S"
    /\ hist.out.byPoints = "S"
    /\ hist.out.viaMinutes = "XL"

\* the title does not start with a glyph and has no white space around it
PlainTitle(t) ==
    t = <<>> \/ (/\ ~InEmojiClass(t[1]) /\ t[1] # WORKED_G
                 /\ ~IsWhiteSpace(t[1]) /\ ~IsWhiteSpace(t[Len(t)]))

\* C26. Prefix laws: for every glyph of the prefix table (TRIAGE, SCHEDULED,
\* DONE, CANCELED, FAILED, WORKED) and every title without a leading glyph and
\* without surrounding white space, stripping after adding gives the title
\* back, adding a second prefix replaces the first, and stripPrefix leaves a
\* title without a prefix unchanged.
C26_PrefixLaws ==
    (pc = "retitled" /\ PlainTitle(hist.title)) =>
        /\ hist.out.addedStripped = hist.title
        /\ hist.out.addedTwice = addPrefix(hist.title, hist.prefix2)
        /\ hist.out.stripped = hist.title

-----------------------------------------------------------------------------
(* Properties checked under SpecDiff *)

\* the types of the operations diff emitted for the item at position k
TypesFor(k) ==
    [j \in 1..Len(SelectSeq(operations, LAMBDA op : op.item.uid = items[k].uid)) |->
        SelectSeq(operations, LAMBDA op : op.item.uid = items[k].uid)[j].type]

-----------------------------------------------------------------------------
(* Properties checked under SpecExecute *)

\* C34. Copy-to-history is a no-op when unconfigured: executing a
\* copyEventToHistory operation while no history calendar is configured makes
\* no client call (the two systems stay as they were) and yields a result
\* with success = true, result = null and error = null.
C34_CopyToHistoryNoOp ==
    (/\ Len(results) = 1
     /\ results[1].operation.type = "copyEventToHistory"
     /\ hist.gcalHistoryCalendarId = 0) =>
        /\ results[1].success
        /\ results[1].result = Null
        /\ results[1].error = "null"
        /\ Len(linearIssues) = 1 /\ linearIssues[1].description = <<>>
        /\ Len(gcalEvents) = 1 /\ gcalEvents[1].summary = TitleA

-----------------------------------------------------------------------------
(* Properties checked under SpecBatch *)

\* an operation that creates an event and asks the scheduler for its slot
NeedsSlot(operation) ==
    /\ operation.type \in {"createGCalEvent", "createGCalEventAndUpdateLinear",
                           "createRescheduledEvent"}
    /\ \/ ~HasTime(operation.item.startTime)
       \/ ~HasTime(operation.item.endTime)
       \/ operation.item.startTime.kind = "date"

\* C38. No double booking within a pass: when one pass executes two
\* create-event operations that both need a scheduled slot, the slot chosen
\* for the second does not overlap the event the first has created.
C38_NoDoubleBooking ==
    \A k \in 1..Len(results) : \A n \in 1..Len(results) :
        (/\ k < n
         /\ NeedsSlot(results[k].operation) /\ results[k].success
         /\ NeedsSlot(results[n].operation) /\ results[n].success) =>
            \/ results[n].result.start.t >= results[k].result.end.t
            \/ results[n].result.end.t <= results[k].result.start.t

=============================================================================
